---- MODULE Spec2Model ----
(***************************************************************************)
(* Dialogue resolver of the EUNOIA / WAX! Baby assistants                  *)
(* (src/eunoia/chatbot_api.py, src/wax-baby-chatbot_api.py).               *)
(*                                                                         *)
(* A text is a sequence of one-character strings, so that lower(), strip(),*)
(* substring tests and the regular expressions of the source are computed, *)
(* not assumed.  A missing Redis key (Python None) and the empty string    *)
(* are both the empty sequence: the source only ever tests such values for *)
(* truthiness.                                                             *)
(***************************************************************************)
EXTENDS Integers, Sequences, FiniteSets, TLC

VARIABLES
    user_cache,     \* the per-user keys of Redis db 4 (one user id)
    turn,           \* observation of the last /chat request served in one step:
                    \* input, reply, events
    turns,          \* number of /chat requests served in one step so far
    tenant,         \* which of the two bots is deployed
    re_legacy,      \* TRUE: the interpreter's re module accepts inline flags
                    \* in mid-pattern (Python <= 3.10); FALSE: it raises re.error
    inflight        \* the requests served step by step (worker threads), one
                    \* store operation a step, each with its position in
                    \* generate_dynamic_response and the local variables of
                    \* its innermost call

vars == <<user_cache, turn, turns, tenant, re_legacy, inflight>>

---------------------------------------------------------------------------
(* Python string primitives *)

None == <<>>

UpperAlpha == <<"A", "B", "C", "D", "E", "F", "G", "H", "I", "J", "K", "L", "M", "N", "O", "P", "Q", "R", "S", "T", "U", "V", "W", "X", "Y", "Z", "Ä", "Ö", "Ü">>

LowerAlpha == <<"a", "b", "c", "d", "e", "f", "g", "h", "i", "j", "k", "l", "m", "n", "o", "p", "q", "r", "s", "t", "u", "v", "w", "x", "y", "z", "ä", "ö", "ü">>

AsciiLetters == 26

DigitChars == {"0", "1", "2", "3", "4", "5", "6", "7", "8", "9"}

\* c.lower() of one character
LowerChar(c) ==
    IF \E i \in 1..Len(UpperAlpha) : UpperAlpha[i] = c
    THEN LowerAlpha[CHOOSE i \in 1..Len(UpperAlpha) : UpperAlpha[i] = c]
    ELSE c

\* c.upper() of one character, as a text ("ß".upper() is "SS"; capitalize()
\* title-cases it to "Ss")
TitleChar(c) ==
    IF \E i \in 1..Len(LowerAlpha) : LowerAlpha[i] = c
    THEN <<UpperAlpha[CHOOSE i \in 1..Len(LowerAlpha) : LowerAlpha[i] = c]>>
    ELSE IF c = "ß" THEN <<"S", "s">> ELSE <<c>>

\* str.lower()
RECURSIVE lower(_)
lower(s) == IF s = <<>> THEN <<>> ELSE <<LowerChar(Head(s))>> \o lower(Tail(s))

\* str.capitalize(): first character title-cased, the rest lower-cased
capitalize(s) ==
    IF Len(s) = 0 THEN s ELSE TitleChar(s[1]) \o lower(Tail(s))

IsSpace(c) == c \in {" ", "\n", "\t"}

\* str.strip()
strip(s) ==
    LET idx == {i \in 1..Len(s) : ~IsSpace(s[i])}
    IN  IF idx = {} THEN <<>>
        ELSE LET lo == CHOOSE i \in idx : \A j \in idx : i <= j
                 hi == CHOOSE i \in idx : \A j \in idx : i >= j
             IN  SubSeq(s, lo, hi)

\* str.split(): the whitespace-separated words, in order
RECURSIVE split(_)
split(s) ==
    LET t == strip(s)
    IN  IF t = <<>> THEN <<>>
        ELSE LET sp == {i \in 1..Len(t) : IsSpace(t[i])}
             IN  IF sp = {} THEN <<t>>
                 ELSE LET p == CHOOSE i \in sp : \A j \in sp : i <= j
                      IN  <<SubSeq(t, 1, p - 1)>> \o split(SubSeq(t, p + 1, Len(t)))

\* s[i:].startswith(p), 1-based
PrefixAt(p, s, i) ==
    /\ i >= 1
    /\ i + Len(p) - 1 <= Len(s)
    /\ SubSeq(s, i, i + Len(p) - 1) = p

\* Python's  sub in s
Contains(sub, s) == \E i \in 1..(Len(s) + 1) : PrefixAt(sub, s, i)

\* Python's  x in [list]
InList(x, list) == \E i \in 1..Len(list) : list[i] = x

RECURSIVE FilterSeq(_, _)
FilterSeq(s, keep) ==
    IF s = <<>> THEN <<>>
    ELSE (IF Head(s) \in keep THEN <<Head(s)>> ELSE <<>>) \o FilterSeq(Tail(s), keep)

\* the character class [a-zA-Z0-9 ]
CleanChars ==
    {UpperAlpha[i] : i \in 1..AsciiLetters} \cup {LowerAlpha[i] : i \in 1..AsciiLetters}
        \cup DigitChars \cup {" "}

\* re.sub(r"[^a-zA-Z0-9 ]", "", text).lower()
clean_text(text) == lower(FilterSeq(text, CleanChars))

\* the character class [A-Za-zÄÖÜäöüß]
NameChars ==
    {UpperAlpha[i] : i \in 1..Len(UpperAlpha)} \cup {LowerAlpha[i] : i \in 1..Len(LowerAlpha)}
        \cup {"ß"}

\* the character class \w, as far as the model's alphabet goes
WordChars == NameChars \cup DigitChars \cup {"_"}

AllIn(s, class) == \A i \in 1..Len(s) : s[i] \in class

MinNameWord == 2

\* re.match(r"^[A-Za-zÄÖÜäöüß]{2,}( [A-Za-zÄÖÜäöüß]{2,})?$", name_input)
IsNameLike(name_input) ==
    \/ Len(name_input) >= MinNameWord /\ AllIn(name_input, NameChars)
    \/ \E p \in 1..Len(name_input) :
          /\ name_input[p] = " "
          /\ p - 1 >= MinNameWord
          /\ Len(name_input) - p >= MinNameWord
          /\ AllIn(SubSeq(name_input, 1, p - 1), NameChars)
          /\ AllIn(SubSeq(name_input, p + 1, Len(name_input)), NameChars)

---------------------------------------------------------------------------
(* Explicit language switch: trigger phrases and the stripping regex *)

SprichDeutsch == <<"s", "p", "r", "i", "c", "h", " ", "d", "e", "u", "t", "s", "c", "h">>

SpeakEnglish == <<"s", "p", "e", "a", "k", " ", "e", "n", "g", "l", "i", "s", "h">>

\* switch_language(user_input): "de", "en" or "" (None)
switch_language(user_input) ==
    IF Contains(SprichDeutsch, lower(user_input)) THEN "de"
    ELSE IF Contains(SpeakEnglish, lower(user_input)) THEN "en"
    ELSE ""

\* (switch to|change to|speak|talk)
SwitchVerbs ==
    << <<"s", "w", "i", "t", "c", "h", " ", "t", "o">>,
       <<"c", "h", "a", "n", "g", "e", " ", "t", "o">>,
       <<"s", "p", "e", "a", "k">>,
       <<"t", "a", "l", "k">> >>

\* (english|deutsch|german)
SwitchTargets ==
    << <<"e", "n", "g", "l", "i", "s", "h">>,
       <<"d", "e", "u", "t", "s", "c", "h">>,
       <<"g", "e", "r", "m", "a", "n">> >>

\* (englisch|english|deutsch|german)
LanguageWords ==
    << <<"e", "n", "g", "l", "i", "s", "c", "h">>,
       <<"e", "n", "g", "l", "i", "s", "h">>,
       <<"d", "e", "u", "t", "s", "c", "h">>,
       <<"g", "e", "r", "m", "a", "n">> >>

\* ( bitte| please)?
PoliteSuffixes ==
    << <<" ", "b", "i", "t", "t", "e">>,
       <<" ", "p", "l", "e", "a", "s", "e">> >>

\* length of the first alternative of alts that matches s at i, else 0
FirstAltLen(alts, s, i) ==
    LET hits == {k \in 1..Len(alts) : PrefixAt(alts[k], s, i)}
    IN  IF hits = {} THEN 0
        ELSE Len(alts[CHOOSE k \in hits : \A h \in hits : k <= h])

\* Length of the match of the stripping pattern at position i of the
\* lower-cased text s (the flag (?i) is global), 0 when there is none.  The
\* first branch, verb + space + language, is tried before the second,
\* language word + optional polite suffix.
TriggerMatchLen(s, i) ==
    LET v  == FirstAltLen(SwitchVerbs, s, i)
        t  == IF v > 0 /\ PrefixAt(<<" ">>, s, i + v)
              THEN FirstAltLen(SwitchTargets, s, i + v + 1) ELSE 0
        w  == FirstAltLen(LanguageWords, s, i)
    IN  IF t > 0 THEN v + 1 + t
        ELSE IF w > 0 THEN w + FirstAltLen(PoliteSuffixes, s, i + w)
        ELSE 0

\* what re.sub leaves of user_input from position i on, given the length n
\* of the match at i
RECURSIVE SubTriggerFrom(_, _, _)
SubTriggerStep(user_input, lowered, i, n) ==
    IF n > 0 THEN SubTriggerFrom(user_input, lowered, i + n)
    ELSE <<user_input[i]>> \o SubTriggerFrom(user_input, lowered, i + 1)

\* re.sub(pattern, "", user_input) from position i on: every non-overlapping
\* match, leftmost first, is deleted; lowered is user_input lower-cased
SubTriggerFrom(user_input, lowered, i) ==
    IF i > Len(user_input) THEN <<>>
    ELSE SubTriggerStep(user_input, lowered, i, TriggerMatchLen(lowered, i))

\* re.sub(r"(?i)(switch to|...) (english|...)|(?i)(englisch|...)( bitte| please)?",
\*        "", user_input).strip()   on an interpreter that accepts the pattern
stripped_input(user_input) == strip(SubTriggerFrom(user_input, lower(user_input), 1))

MinRemainder == 3

Please == <<"p", "l", "e", "a", "s", "e">>

Bitte == <<"b", "i", "t", "t", "e">>

\* len(stripped_input) > 3 and stripped_input not in ["please", "bitte"]
IsMeaningful(stripped) ==
    Len(stripped) > MinRemainder /\ ~InList(stripped, <<Please, Bitte>>)

---------------------------------------------------------------------------
(* difflib: SequenceMatcher.ratio() and get_close_matches() *)

\* length of the common run of a from i and b from j, inside a[..ahi], b[..bhi]
RECURSIVE RunLen(_, _, _, _, _, _)
RunLen(a, i, ahi, b, j, bhi) ==
    IF i > ahi \/ j > bhi THEN 0
    ELSE IF a[i] # b[j] THEN 0
    ELSE 1 + RunLen(a, i + 1, ahi, b, j + 1, bhi)

\* the greatest of a set of lengths, 0 for none
LongestLen(lens) == IF lens = {} THEN 0 ELSE CHOOSE k \in lens : \A h \in lens : k >= h

\* the least of a non-empty set of positions
MinPos(S) == CHOOSE i \in S : \A j \in S : i <= j

\* of the blocks  best  of length k, the one starting at bi in a and earliest
\* in b
EarliestInB(best, bi, k) ==
    [i |-> bi, j |-> MinPos({pr[2] : pr \in {q \in best : q[1] = bi}}), k |-> k]

\* of the longest blocks  best , the one starting earliest in a, and of those
\* the one starting earliest in b
EarliestBlock(alo, blo, best, kmax) ==
    IF kmax = 0 THEN [i |-> alo, j |-> blo, k |-> 0]
    ELSE EarliestInB(best, MinPos({pr[1] : pr \in best}), kmax)

\* the block of length kmax among the start pairs
LongestBlock(a, alo, ahi, b, blo, bhi, pairs, kmax) ==
    EarliestBlock(alo, blo,
                  {pr \in pairs : RunLen(a, pr[1], ahi, b, pr[2], bhi) = kmax}, kmax)

\* the longest block among the start pairs
LongestAmong(a, alo, ahi, b, blo, bhi, pairs) ==
    LongestBlock(a, alo, ahi, b, blo, bhi, pairs,
                 LongestLen({RunLen(a, pr[1], ahi, b, pr[2], bhi) : pr \in pairs}))

\* SequenceMatcher.find_longest_match(alo, ahi, blo, bhi) without junk: the
\* longest block, of those the one starting earliest in a, of those the one
\* starting earliest in b (1-based, inclusive bounds); k = 0 when none
find_longest_match(a, alo, ahi, b, blo, bhi) ==
    LongestAmong(a, alo, ahi, b, blo, bhi, (alo..ahi) \X (blo..bhi))

\* sum of the sizes of SequenceMatcher.get_matching_blocks(): the longest
\* block m, and the same to its left and to its right
RECURSIVE MatchedChars(_, _, _, _, _, _)
MatchedAround(a, alo, ahi, b, blo, bhi, m) ==
    IF m.k = 0 THEN 0
    ELSE m.k + MatchedChars(a, alo, m.i - 1, b, blo, m.j - 1)
             + MatchedChars(a, m.i + m.k, ahi, b, m.j + m.k, bhi)

MatchedChars(a, alo, ahi, b, blo, bhi) ==
    IF alo > ahi \/ blo > bhi THEN 0
    ELSE MatchedAround(a, alo, ahi, b, blo, bhi,
                       find_longest_match(a, alo, ahi, b, blo, bhi))

\* SequenceMatcher(None, a, b).ratio() as the fraction num/den (1/1 for two
\* empty texts)
ratio(a, b) ==
    IF Len(a) + Len(b) = 0 THEN [num |-> 1, den |-> 1]
    ELSE [num |-> 2 * MatchedChars(a, 1, Len(a), b, 1, Len(b)),
          den |-> Len(a) + Len(b)]

\* ratio >= pct/100 and ratio > pct/100
RatioAtLeast(r, pct) == r.num * 100 >= pct * r.den

RatioAbove(r, pct) == r.num * 100 > pct * r.den

\* code point order of the model's alphabet
CodeOrder ==
    <<"\t", "\n", " ", "!", "'", ",", "-", ".", "0", "1", "2", "3", "4", "5", "6", "7", "8", "9", "?">>
        \o SubSeq(UpperAlpha, 1, AsciiLetters) \o <<"_">> \o SubSeq(LowerAlpha, 1, AsciiLetters)
        \o <<"Ä", "Ö", "Ü", "ß", "ä", "ö", "ü">>

CodeOf(c) == CHOOSE i \in 1..Len(CodeOrder) : CodeOrder[i] = c

\* Python's  x < y  on str
RECURSIVE StrLess(_, _)
StrLess(x, y) ==
    IF y = <<>> THEN FALSE
    ELSE IF x = <<>> THEN TRUE
    ELSE IF Head(x) = Head(y) THEN StrLess(Tail(x), Tail(y))
    ELSE CodeOf(Head(x)) < CodeOf(Head(y))

\* heapq.nlargest orders by (ratio, text): x with ratio rx comes before y
\* with ratio ry
ScoresBefore(rx, x, ry, y) ==
    \/ rx.num * ry.den > ry.num * rx.den
    \/ rx.num * ry.den = ry.num * rx.den /\ StrLess(y, x)

\* the best scoring of the possibilities that reach the cutoff, as a
\* one-element list, <<>> when there is none
BestOf(good, word) ==
    IF good = {} THEN <<>>
    ELSE <<CHOOSE x \in good :
               \A y \in good \ {x} : ScoresBefore(ratio(x, word), x, ratio(y, word), y)>>

\* get_close_matches(word, possibilities, n=1, cutoff=pct/100)
get_close_matches(word, possibilities, pct) ==
    BestOf({x \in possibilities : RatioAtLeast(ratio(x, word), pct)}, word)

---------------------------------------------------------------------------
(* Business data: the contents of the business Redis db and of the partner *)
(* API that the requests below are served from                             *)

\* keys transport:station:name:*  (each with its station hash present)
StationNames == << <<"h", "a", "u", "p", "t", "b", "a", "h", "n", "h", "o", "f">> >>

\* smembers faq:triggers, every trigger with a stored answer
FaqTriggers == << <<"o", "p", "e", "n", "i", "n", "g", " ", "h", "o", "u", "r", "s">> >>

\* the keys of faq_keywords, in dict order
FaqKeywords ==
    << <<"p", "a", "s", "s", "w", "o", "r", "d">>,
       <<"p", "a", "s", "s", "w", "o", "r", "t">>,
       <<"r", "e", "s", "e", "t">>,
       <<"c", "h", "a", "n", "g", "e">>,
       <<"n", "e", "w">>,
       <<"ä", "n", "d", "e", "r", "n">>,
       <<"n", "e", "u">>,
       <<"z", "u", "r", "ü", "c", "k", "s", "e", "t", "z", "e", "n">> >>

\* the faq:* keys each keyword maps to, in list order
FaqKeywordKeys ==
    << <<"faq:reset_password", "faq:how_to_get_new_password", "faq:how_to_reset_password", "faq:how_to_change_password">>,
       <<"faq:reset_password", "faq:how_to_get_new_password", "faq:how_to_reset_password", "faq:how_to_change_password">>,
       <<"faq:reset_password", "faq:how_to_reset_password">>,
       <<"faq:how_to_change_password">>,
       <<"faq:how_to_get_new_password">>,
       <<"faq:how_to_change_password">>,
       <<"faq:how_to_get_new_password">>,
       <<"faq:reset_password", "faq:how_to_reset_password">> >>

\* which of the password FAQ keys hold an answer in the business db
StoredFaqKeys == {"faq:how_to_change_password"}

\* lrange business:services
OwnServices == << <<"W", "a", "x", "i", "n", "g">> >>

\* "services" of the partner API (fetch_waxbaby_data / fetch_eunoia_data)
PartnerServices == << <<"S", "u", "g", "a", "r", "i", "n", "g">>, <<"M", "a", "n", "i", "c", "u", "r", "e">> >>

\* lrange business:non_services:explicit
explicit_non_services == << <<"m", "a", "n", "i", "c", "u", "r", "e">> >>

\* lrange business:non_services:redirect
redirect_non_services == << <<"s", "u", "g", "a", "r", "i", "n", "g">> >>

\* the services answered with the stricter refusal
StrictNonServices ==
    << <<"m", "e", "n", "'", "s", " ", "i", "n", "t", "i", "m", "a", "t", "e", " ", "w", "a", "x", "i", "n", "g">>,
       <<"i", "n", "t", "i", "m", " ", "w", "a", "x", "i", "n", "g", " ", "m", "ä", "n", "n", "e", "r">>,
       <<"i", "n", "t", "i", "m", "w", "a", "x", "i", "n", "g", " ", "m", "ä", "n", "n", "e", "r">> >>

Tenants == {"eunoia", "waxbaby"}

---------------------------------------------------------------------------
(* Resolver stages 1-4: pure functions of the text and the business data *)

IsWordAt(s, k) == k >= 1 /\ k <= Len(s) /\ s[k] \in WordChars

\* \b between positions k-1 and k
WordBoundary(s, k) == IsWordAt(s, k - 1) # IsWordAt(s, k)

\* re.search(r'\b' + re.escape(name) + r'\b', s)
WholeWordIn(name, s) ==
    \E i \in 1..Len(s) :
        /\ PrefixAt(name, s, i)
        /\ WordBoundary(s, i)
        /\ WordBoundary(s, i + Len(name))

FirstIndex(S) == CHOOSE i \in S : \A j \in S : i <= j

MaxFuzzyStationWords == 4

StationCutoffPct == 85

\* list[0] if list else None
FirstOrNone(list) == IF list # <<>> THEN list[1] ELSE None

\* lines 91-104 of extract_station_name:  whole  are the stations named in
\* the lower-cased input as whole words
StationIn(user_input_lower, whole) ==
    IF whole # {} THEN StationNames[FirstIndex(whole)]
    ELSE IF Len(split(user_input_lower)) <= MaxFuzzyStationWords
    THEN FirstOrNone(get_close_matches(user_input_lower,
                                       {StationNames[k] : k \in 1..Len(StationNames)},
                                       StationCutoffPct))
    ELSE None

StationOf(user_input_lower) ==
    StationIn(user_input_lower,
              {k \in 1..Len(StationNames) : WholeWordIn(StationNames[k], user_input_lower)})

\* extract_station_name(user_input): the station name, None when there is none
extract_station_name(user_input) == StationOf(lower(user_input))

\* Words of s as a set
WordSet(s) == {split(s)[k] : k \in 1..Len(split(s))}

MinFaqLen == 3

FaqOverlapPct == 70

FaqCutoffPct == 60

\* the first of  keys  that holds an answer
FirstStored(keys) == keys[FirstIndex({n \in 1..Len(keys) : keys[n] \in StoredFaqKeys})]

\* the keywords contained in the cleaned input that have a stored key
KeywordHits(user_input_clean) ==
    {k \in 1..Len(FaqKeywords) :
        /\ Contains(FaqKeywords[k], user_input_clean)
        /\ \E n \in 1..Len(FaqKeywordKeys[k]) : FaqKeywordKeys[k][n] \in StoredFaqKeys}

FirstKeywordKey(hits) ==
    IF hits = {} THEN "" ELSE FirstStored(FaqKeywordKeys[FirstIndex(hits)])

\* the keyword shortcut of handle_faqs_improved: the first stored key of the
\* first keyword contained in the cleaned input that has one, "" when none
FaqKeywordAnswer(user_input_clean) == FirstKeywordKey(KeywordHits(user_input_clean))

\* len(trigger_words) > 0 and len(trigger_words & input_words) / len(trigger_words) >= 0.7
WordsOverlap(trigger_words, input_words) ==
    /\ Cardinality(trigger_words) > 0
    /\ Cardinality(trigger_words \cap input_words) * 100
           >= FaqOverlapPct * Cardinality(trigger_words)

CleanMatches(trigger_clean, user_input_clean) ==
    \/ trigger_clean = user_input_clean
    \/ Contains(trigger_clean, user_input_clean)
    \/ Contains(user_input_clean, trigger_clean)
    \/ WordsOverlap(WordSet(trigger_clean), WordSet(user_input_clean))

\* the trigger loop of handle_faqs_improved: equal, substring either way, or
\* at least 70% of the trigger's words present
FaqTriggerMatches(trigger, user_input_clean) ==
    CleanMatches(clean_text(lower(trigger)), user_input_clean)

\* the trigger whose cleaned text is the close match found
TriggerOfMatch(matches) ==
    IF matches # <<>>
    THEN FaqTriggers[FirstIndex({k \in 1..Len(FaqTriggers) :
                                     clean_text(lower(FaqTriggers[k])) = matches[1]})]
    ELSE None

\* lines 239-274: keyword shortcut, then the trigger loop, then close matches
FaqAnswer(user_input_clean, byKey, hits) ==
    IF byKey # "" THEN <<byKey>>
    ELSE IF hits # {} THEN FaqTriggers[FirstIndex(hits)]
    ELSE TriggerOfMatch(get_close_matches(user_input_clean,
             {clean_text(lower(FaqTriggers[k])) : k \in 1..Len(FaqTriggers)},
             FaqCutoffPct))

FaqAnswerFor(user_input_clean) ==
    FaqAnswer(user_input_clean,
              FaqKeywordAnswer(user_input_clean),
              {k \in 1..Len(FaqTriggers) : FaqTriggerMatches(FaqTriggers[k], user_input_clean)})

\* handle_faqs_improved(user_input, user_id): the answer found, as the text
\* that names it (a key or a trigger), None when there is none
handle_faqs_improved(user_input) ==
    IF Len(strip(user_input)) < MinFaqLen THEN None
    ELSE IF Len(FaqTriggers) = 0 THEN None
    ELSE FaqAnswerFor(clean_text(lower(user_input)))

SimilarPct == 80

\* find_similar_services(user_input, services): the matching names, in order
RECURSIVE find_similar_services(_, _)
find_similar_services(user_input, services) ==
    IF services = <<>> THEN <<>>
    ELSE LET name == Head(services)
             service_words == split(lower(name))
             similar == \E k \in 1..Len(service_words) :
                            RatioAbove(ratio(service_words[k], lower(user_input)), SimilarPct)
         IN  (IF similar THEN <<name>> ELSE <<>>)
                 \o find_similar_services(user_input, Tail(services))

\* business_data["services"] + partner_data["services"]; the partner list is
\* empty when the partner API could not be fetched
combined_services(partner_ok) ==
    OwnServices \o (IF partner_ok THEN PartnerServices ELSE <<>>)

\* first entry of list whose cleaned text is contained in the cleaned input
FirstContained(list, user_input) ==
    LET hits == {k \in 1..Len(list) : Contains(clean_text(list[k]), clean_text(user_input))}
    IN  IF hits = {} THEN None ELSE list[FirstIndex(hits)]

\* FirstStage with the loop over the explicit non-services left out
FirstStage_noExplicit(station, faq, possible_matches, exact, non_service, redirect_service) ==
    IF station # None THEN [stage |-> "transport", arg |-> station]
    ELSE IF faq # None THEN [stage |-> "faq", arg |-> faq]
    ELSE IF possible_matches # <<>> /\ ~exact
    THEN [stage |-> "similar", arg |-> possible_matches[1]]
    ELSE IF redirect_service # None THEN [stage |-> "redirect", arg |-> redirect_service]
    ELSE [stage |-> "none", arg |-> None]

\* FirstStage with the FAQ lookup tried before the transport lookup
FirstStage_faqFirst(station, faq, possible_matches, exact, non_service, redirect_service) ==
    IF faq # None THEN [stage |-> "faq", arg |-> faq]
    ELSE IF station # None THEN [stage |-> "transport", arg |-> station]
    ELSE [stage |-> "none", arg |-> None]

\* lines 552-590: the first stage that answers, and what it answers about
FirstStage(station, faq, possible_matches, exact, non_service, redirect_service) ==
    IF station # None THEN [stage |-> "transport", arg |-> station]
    ELSE IF faq # None THEN [stage |-> "faq", arg |-> faq]
    ELSE IF possible_matches # <<>> /\ ~exact
    THEN [stage |-> "similar", arg |-> possible_matches[1]]
    ELSE IF non_service # None
    THEN [stage |-> IF InList(lower(non_service), StrictNonServices)
                    THEN "non_service_strict" ELSE "non_service",
          arg |-> non_service]
    ELSE IF redirect_service # None THEN [stage |-> "redirect", arg |-> redirect_service]
    ELSE [stage |-> "none", arg |-> None]

\* any(clean_text(svc) == clean_text(user_input) for svc in combined_services)
ExactService(svcs, user_input_clean) ==
    \E k \in 1..Len(svcs) : clean_text(svcs[k]) = user_input_clean

StagesOn(t, svcs, user_input) ==
    FirstStage(extract_station_name(user_input),
               IF t = "eunoia" THEN handle_faqs_improved(user_input) ELSE None,
               find_similar_services(user_input, svcs),
               ExactService(svcs, clean_text(user_input)),
               FirstContained(explicit_non_services, user_input),
               FirstContained(redirect_non_services, user_input))

\* Stages 1-4 on one text (lines 550-590): the first stage that answers and
\* what it answers about.  The FAQ stage exists in the EUNOIA bot only.
StaticStage(t, partner_ok, user_input) ==
    StagesOn(t, combined_services(partner_ok), user_input)

---------------------------------------------------------------------------
(* Session store and the observation of one request *)

MEMORY_LIMIT == 5

DEFAULT_LANGUAGE == "de"

SkipIntroTTL == 86400

AskedSwitchTTL == 3600

\* the session of a user nothing is stored for
EmptySession ==
    [user_name |-> None,
     asked_for_name |-> FALSE,
     pending_message |-> None,
     previous_message |-> None,
     user_language |-> "",
     chat_history |-> <<>>,
     skip_intro |-> 0,                  \* remaining TTL in seconds, 0 = absent
     asked_language_switch |-> 0,       \* remaining TTL in seconds, 0 = absent
     context_last_offer |-> ""]

\* one piece of a reply: a fixed or generated text, its language, its subject
Part(kind, lang, text) == [kind |-> kind, lang |-> lang, text |-> text]

\* one step taken while serving a request, at call depth d; hist is the chat
\* history the step wrote or sent, where it did
Ev(ev, d, text) == [ev |-> ev, d |-> d, text |-> text, hist |-> <<>>]

\* what a call of generate_dynamic_response hands back
Ret(cache, reply, events) ==
    [cache |-> cache, reply |-> reply, events |-> events, raised |-> FALSE]

Raise(cache, events) ==
    [cache |-> cache, reply |-> <<>>, events |-> events, raised |-> TRUE]

\* rpush that drops a message equal to the last one stored
rpush_dropsRepeat(cache, message) ==
    IF cache.chat_history # <<>> /\ cache.chat_history[Len(cache.chat_history)] = message
    THEN cache
    ELSE [cache EXCEPT !.chat_history = Append(@, message)]

\* line 129: user_cache.rpush(key, message)
rpush(cache, message) == [cache EXCEPT !.chat_history = Append(@, message)]

\* line 130: user_cache.ltrim(key, -MEMORY_LIMIT, -1)
ltrim(cache) ==
    LET n == Len(cache.chat_history)
    IN  [cache EXCEPT !.chat_history =
            IF n > MEMORY_LIMIT THEN SubSeq(@, n - MEMORY_LIMIT + 1, n) ELSE @]

\* store_user_interaction trimming to the first MEMORY_LIMIT entries
store_user_interaction_keepsOldest(cache, message) ==
    LET pushed == Append(cache.chat_history, message)
    IN  [cache EXCEPT !.chat_history =
            IF Len(pushed) > MEMORY_LIMIT THEN SubSeq(pushed, 1, MEMORY_LIMIT) ELSE pushed]

\* store_user_interaction(user_id, message): rpush, then ltrim to the last
\* MEMORY_LIMIT entries
store_user_interaction(cache, message) ==
    LET pushed == Append(cache.chat_history, message)
        n == Len(pushed)
    IN  [cache EXCEPT !.chat_history =
            IF n > MEMORY_LIMIT THEN SubSeq(pushed, n - MEMORY_LIMIT + 1, n) ELSE pushed]

\* get_user_language(user_id, default_language)
get_user_language(cache, default_language) ==
    IF cache.user_language # "" THEN cache.user_language ELSE default_language

\* set_user_language(user_id, language)
set_user_language(cache, language) == [cache EXCEPT !.user_language = language]

\* language = force_language or stored or user_language or DEFAULT_LANGUAGE
ActiveLanguage(cache, user_language, force_language) ==
    IF force_language # "" THEN force_language
    ELSE IF cache.user_language # "" THEN cache.user_language
    ELSE IF user_language # "" THEN user_language
    ELSE DEFAULT_LANGUAGE

---------------------------------------------------------------------------
(* Name collection *)

\* AskForName with the buffering of the message left out
AskForName_forgetsMessage(cache, user_input) ==
    [cache EXCEPT !.asked_for_name = TRUE]

\* AskForName with the asked_for_name flag left unset
AskForName_noFlag(cache, user_input) ==
    [cache EXCEPT !.pending_message = user_input]

\* lines 523-524: remember that the name was asked for and buffer the message
AskForName(cache, user_input) ==
    [cache EXCEPT !.asked_for_name = TRUE, !.pending_message = user_input]

LieberGast == <<"L", "i", "e", "b", "e", "r", " ", "G", "a", "s", "t">>

DearGuest == <<"D", "e", "a", "r", " ", "G", "u", "e", "s", "t">>

\* AwaitingName with both tests left out
AwaitingName_always(cache) == TRUE

\* line 527: no name is stored and the name was asked for
AwaitingName(cache) == cache.user_name = None /\ cache.asked_for_name

\* ExtractName with the German honorific in every language
ExtractName_germanOnly(user_input, language) ==
    LET name_input == strip(user_input)
    IN  IF IsNameLike(name_input) THEN capitalize(split(name_input)[1])
        ELSE LieberGast

\* lines 528-532: the display name taken from a name reply
ExtractName(user_input, language) ==
    LET name_input == strip(user_input)
    IN  IF IsNameLike(name_input) THEN capitalize(split(name_input)[1])
        ELSE IF language = "de" THEN LieberGast ELSE DearGuest

\* CaptureName that also stores the default language as the preferred one
CaptureName_storesLanguage(cache, name) ==
    [cache EXCEPT !.user_name = name,
                  !.asked_for_name = FALSE,
                  !.pending_message = None,
                  !.user_language = DEFAULT_LANGUAGE]

\* CaptureName with the deletion of asked_for_name left out
CaptureName_keepsFlag(cache, name) ==
    [cache EXCEPT !.user_name = name, !.pending_message = None]

\* lines 534-537: store the name, clear the flag, drop the buffered message
\* (which the caller has read into  pending)
CaptureName(cache, name) ==
    [cache EXCEPT !.user_name = name,
                  !.asked_for_name = FALSE,
                  !.pending_message = None]

\* ConsumePending with the skip_intro marker left unset
ConsumePending_noSkipIntro(cache) == [cache EXCEPT !.pending_message = None]

\* lines 542-543 and 683-684: the buffered message is taken over
ConsumePending(cache) ==
    [cache EXCEPT !.pending_message = None, !.skip_intro = SkipIntroTTL]

\* AfterName with the buffered message left in the store
AfterName_keepsPending(cache, name, pending) ==
    [ConsumePending(CaptureName(cache, name)) EXCEPT !.pending_message = pending]

\* lines 534-543: the session after the name step, which read  pending
AfterName(cache, name, pending) ==
    IF pending # None THEN ConsumePending(CaptureName(cache, name))
    ELSE CaptureName(cache, name)

---------------------------------------------------------------------------
(* Bounds and inputs of the model *)

\* the requests of a behaviour of Spec and of NameSpec
MaxTurns == 1

MaxCallDepth == 3

\* the requests of a behaviour of ConcurrentSpec
MaxConcurrentTurns == 2

\* the requests of a behaviour of RaceSpec
MaxRaceTurns == 3

\* the messages a user sends
Messages ==
    { <<" ">>,
      <<"T", "o", "m">>,
      <<"s", "p", "e", "a", "k", " ", "e", "n", "g", "l", "i", "s", "h">>,
      <<"S", "p", "r", "i", "c", "h", " ", "D", "e", "u", "t", "s", "c", "h">>,
      <<"w", "h", "a", "t", " ", "a", "r", "e", " ", "y", "o", "u", "r", " ", "p", "r", "i", "c", "e", "s">>,
      <<"s", "p", "e", "a", "k", " ", "e", "n", "g", "s", "p", "e", "a", "k", " ", "e", "n", "g", "l", "i", "s", "h", "l", "i", "s", "h", " ", "h", "e", "l", "l", "o">>,
      <<"h", "a", "u", "p", "t", "b", "a", "h", "n", "h", "o", "f">>,
      <<"h", "a", "u", "p", "t", "b", "a", "h", "n", "h", "o", "f", " ", "o", "p", "e", "n", "i", "n", "g", " ", "h", "o", "u", "r", "s">>,
      <<"o", "p", "e", "n", "i", "n", "g", " ", "h", "o", "u", "r", "s">>,
      <<"a", " ", "m", "a", "n", "i", "c", "u", "r", "e">>,
      <<"w", "a", "x", "i", "n", "g", " ", "m", "a", "n", "i", "c", "u", "r", "e">>,
      <<"s", "u", "g", "a", "r", "i", "n", "g">>,
      <<"y", "e", "s">> }

\* what a user answers when asked for the name
NameReplies ==
    { <<"A", "n", "n", "a", " ", "M", "ü", "l", "l", "e", "r">>,
      <<"a", "N", "N", "A">>,
      <<"1", "2", "3">>,
      <<"A">>,
      <<"A", "l", " ", "B">>,
      <<"J", "o", " ", "L", "i", " ", "W", "u">>,
      <<" ", "ß", "a", " ">> }

\* the language a request declares (data.get('language', 'de'))
DeclaredLanguages == {"de", "en"}

\* what langdetect.detect answers: a language code, or "fail" for
\* LangDetectException
DetectorOutcomes == {"de", "en", "fr", "fail"}

\* what the text backend does: fails, answers, or answers with a text that
\* mentions "eunoia" or "recommend"
BackendOutcomes == {"fail", "plain", "offer"}

\* whether the partner API can be fetched (FALSE: connection error, timeout
\* or a status other than 200)
PartnerOutcomes == {TRUE, FALSE}

\* the seconds that pass between two requests
TickSteps == {1800, 3600, 86400}

\* every text a call can be made on: a message, or what the stripping regex
\* leaves of one
PipelineTexts ==
    Messages \cup {stripped_input(m) : m \in Messages}
             \cup {stripped_input(stripped_input(m)) : m \in Messages}
             \cup NameReplies

\* what a call computes from its text alone, for every text
TextTable ==
    [m \in PipelineTexts |->
        [strip |-> strip(m),
         lower |-> lower(m),
         strip_lower |-> lower(strip(m)),
         switch |-> switch_language(m),
         remainder |-> stripped_input(m)]]

\* Stages 1-4 depend on the text and the business data only: their outcome
\* for every text, per tenant and per answer of the partner API
StageTable ==
    [t \in Tenants |-> [ok \in BOOLEAN |-> [m \in PipelineTexts |-> StaticStage(t, ok, m)]]]

---------------------------------------------------------------------------
(* generate_dynamic_response *)

\* the language of a fixed localized text:  ... if language == "de" else ...
Loc(language) == IF language = "de" THEN "de" ELSE "en"

YesTokensSuggestions ==
    << <<"y", "e", "s">>, <<"y", "e", "s", " ", "p", "l", "e", "a", "s", "e">>,
       <<"s", "u", "r", "e">>, <<"p", "l", "e", "a", "s", "e">>, <<"y", "e", "a", "h">>,
       <<"j", "a", " ", "b", "i", "t", "t", "e">>, <<"s", "i", "c", "h", "e", "r">>,
       <<"b", "i", "t", "t", "e">>, <<"j", "a">>, <<"y", "e", "a", "h">> >>

YesTokensContact ==
    << <<"y", "e", "s">>, <<"j", "a">>, <<"j", "a", " ", "b", "i", "t", "t", "e">>,
       <<"b", "i", "t", "t", "e">>, <<"s", "u", "r", "e">>, <<"p", "l", "e", "a", "s", "e">> >>

YesNoTokens == << <<"y", "e", "s">>, <<"j", "a">>, <<"n", "o">>, <<"n", "e", "i", "n">> >>

\* the offer a redirect referral records
RedirectOffer(t) == IF t = "eunoia" THEN "waxbaby_contact_info" ELSE "eunoia_contact_info"

\* Continuation with no offer ever taken up
Continuation_never(t, cache, said) == ""

\* lines 593-605: the recorded offer that the message takes up, "" when none;
\* said is user_input.lower()
Continuation(t, cache, said) ==
    LET last_offer == cache.context_last_offer
    IN  IF last_offer = "service_suggestions" /\ InList(said, YesTokensSuggestions)
        THEN "service_suggestions"
        ELSE IF t = "eunoia" /\ last_offer = "waxbaby_contact_info" /\ InList(said, YesTokensContact)
        THEN "waxbaby_contact_info"
        ELSE IF last_offer = "eunoia_contact_info" /\ InList(said, YesTokensContact)
        THEN "eunoia_contact_info"
        ELSE ""

MinDetectLen == 5

\* line 608: the detector is consulted; stripped is user_input.strip()
DetectorConsulted(stripped, skip_language_switch) ==
    ~skip_language_switch /\ Len(stripped) > MinDetectLen

\* OfferDue with the test of the asked_language_switch marker left out
OfferDue_ignoresMarker(cache, user_language, detected_lang) ==
    LET stored_lang == get_user_language(cache, user_language)
    IN  /\ detected_lang \in {"de", "en"}
        /\ stored_lang \in {"de", "en"}
        /\ stored_lang # detected_lang

\* lines 612-618: a switch offer is due
OfferDue(cache, user_language, detected_lang) ==
    LET stored_lang == get_user_language(cache, user_language)
    IN  /\ detected_lang \in {"de", "en"}
        /\ stored_lang \in {"de", "en"}
        /\ stored_lang # detected_lang
        /\ cache.asked_language_switch = 0

\* MarkSwitchAsked with the marker left unset
MarkSwitchAsked_forgets(cache) == cache

\* line 620: user_cache.set("asked_language_switch", "1", ex=3600)
MarkSwitchAsked(cache) == [cache EXCEPT !.asked_language_switch = AskedSwitchTTL]

\* line 630-631: the language an explicit switch asks for, "" when none;
\* requested is switch_language(user_input)
ExplicitSwitch(requested, force_language, skip_language_switch) ==
    IF force_language = "" /\ ~skip_language_switch THEN requested ELSE ""

\* lines 643-659: what an explicit switch goes on with: the buffered previous
\* message, else the meaningful remainder of the message, else nothing; the
\* regex is only compiled when there is no previous message; remainder is
\* what it leaves of user_input where the interpreter accepts it
SwitchResume(cache, remainder, legacy) ==
    IF cache.previous_message # None
    THEN [kind |-> "previous", text |-> cache.previous_message,
          cache |-> [cache EXCEPT !.previous_message = None]]
    ELSE IF ~legacy
    THEN [kind |-> "re_error", text |-> None, cache |-> cache]
    ELSE IF IsMeaningful(remainder)
    THEN [kind |-> "remainder", text |-> remainder, cache |-> cache]
    ELSE [kind |-> "confirm_only", text |-> None,
          cache |-> [cache EXCEPT !.pending_message = None]]

\* SwitchCallArgs with the language stage left on in the nested call
SwitchCallArgs_detects(new_lang) ==
    [user_language |-> new_lang, force_language |-> new_lang,
     skip_pending |-> TRUE, skip_language_switch |-> FALSE]

\* SwitchCallArgs with the nested call left at the defaults of the signature
SwitchCallArgs_flagsOff(new_lang) ==
    [user_language |-> new_lang, force_language |-> "",
     skip_pending |-> FALSE, skip_language_switch |-> FALSE]

\* lines 662-669: the arguments of the nested call after a switch
SwitchCallArgs(new_lang) ==
    [user_language |-> new_lang, force_language |-> new_lang,
     skip_pending |-> TRUE, skip_language_switch |-> TRUE]

\* lines 688-695: the arguments of the nested call that resumes a pending message
ResumeCallArgs(language) ==
    [user_language |-> language, force_language |-> language,
     skip_pending |-> TRUE, skip_language_switch |-> TRUE]

\* lines 675-676: remember the message for a later language switch; said is
\* user_input.strip().lower()
StorePrevious(cache, user_input, said) ==
    IF ~InList(said, YesNoTokens)
    THEN [cache EXCEPT !.previous_message = user_input]
    ELSE cache

\* lines 715-717: an active skip_intro marker gets its TTL refreshed
RefreshSkipIntro(cache) ==
    IF cache.skip_intro > 0 THEN [cache EXCEPT !.skip_intro = SkipIntroTTL] ELSE cache

\* RedirectReply with a failure of the backend passed on to the caller
RedirectReply_propagates(cache, user_input, st, k, events) ==
    IF k.env.gpt = "fail"
    THEN Raise([cache EXCEPT !.context_last_offer = RedirectOffer(k.tenant)],
               events \o <<Ev("redirect", k.depth, user_input)>>)
    ELSE Ret([cache EXCEPT !.context_last_offer = RedirectOffer(k.tenant)],
             <<Part("referral", k.language, st.arg)>>,
             events \o <<Ev("redirect", k.depth, user_input)>>)

\* RedirectReply with the offer left unrecorded
RedirectReply_forgetsOffer(cache, user_input, st, k, events) ==
    Ret(cache,
        <<IF k.env.gpt = "fail"
          THEN Part("referral_fallback", Loc(k.language), st.arg)
          ELSE Part("referral", k.language, st.arg)>>,
        events \o <<Ev("redirect", k.depth, user_input)>>)

\* lines 586-590: the offer is recorded, then the referral is asked of the
\* text backend; when that fails the fixed referral text is returned
RedirectReply(cache, user_input, st, k, events) ==
    Ret([cache EXCEPT !.context_last_offer = RedirectOffer(k.tenant)],
        <<IF k.env.gpt = "fail"
          THEN Part("referral_fallback", Loc(k.language), st.arg)
          ELSE Part("referral", k.language, st.arg)>>,
        events \o <<Ev("redirect", k.depth, user_input)>>)

\* Fallback with the message list built from the history as stored after the
\* append
Fallback_sendsStoredHistory(cache, user_input, k, events) ==
    LET c1 == RefreshSkipIntro(cache)
        c2 == store_user_interaction(c1, user_input)
        messages == c2.chat_history \o <<user_input>>
        ev == events \o << [ev |-> "append", d |-> k.depth, text |-> user_input, hist |-> c2.chat_history],
                           [ev |-> "gpt_call", d |-> k.depth, text |-> user_input, hist |-> messages] >>
    IN  IF k.env.gpt = "fail"
        THEN Ret(c2, <<Part("apology", "en", None)>>, ev)
        ELSE Ret(IF k.env.gpt = "offer"
                 THEN [c2 EXCEPT !.context_last_offer = "eunoia_contact_info"] ELSE c2,
                 k.intro \o <<Part("gpt", Loc(k.language), user_input)>>,
                 ev)

\* Fallback with the message stored in the history a second time after the
\* backend has answered
Fallback_appendsTwice(cache, user_input, k, events) ==
    LET c1 == RefreshSkipIntro(cache)
        messages == k.chat_history \o <<user_input>>
        c2 == store_user_interaction(store_user_interaction(c1, user_input), user_input)
        ev == events \o << [ev |-> "append", d |-> k.depth, text |-> user_input, hist |-> c2.chat_history],
                           [ev |-> "gpt_call", d |-> k.depth, text |-> user_input, hist |-> messages] >>
    IN  IF k.env.gpt = "fail"
        THEN Ret(c2, <<Part("apology", "en", None)>>, ev)
        ELSE Ret(IF k.env.gpt = "offer"
                 THEN [c2 EXCEPT !.context_last_offer = "eunoia_contact_info"] ELSE c2,
                 k.intro \o <<Part("gpt", Loc(k.language), user_input)>>,
                 ev)

\* lines 782-851: the generative fallback.  k.chat_history is the history as
\* loaded when the call began.
Fallback(cache, user_input, k, events) ==
    LET c1 == RefreshSkipIntro(cache)
        messages == k.chat_history \o <<user_input>>
        c2 == store_user_interaction(c1, user_input)
        ev == events \o << [ev |-> "append", d |-> k.depth, text |-> user_input, hist |-> c2.chat_history],
                           [ev |-> "gpt_call", d |-> k.depth, text |-> user_input, hist |-> messages] >>
    IN  IF k.env.gpt = "fail"
        THEN Ret(c2, <<Part("apology", "en", None)>>, ev)
        ELSE Ret(IF k.env.gpt = "offer"
                 THEN [c2 EXCEPT !.context_last_offer = "eunoia_contact_info"] ELSE c2,
                 k.intro \o <<Part("gpt", Loc(k.language), user_input)>>,
                 ev)

\* the stages that answer with a fixed text from the business data
StaticStages == {"transport", "faq", "similar", "non_service_strict", "non_service"}

\* the step a stage is recorded as
StageStep(stage) ==
    IF stage \in {"non_service_strict", "non_service"} THEN "non_service" ELSE stage

\* lines 552-583: the reply of the stage  st.stage  about  st.arg
StaticParts(cache, st, language) ==
    IF st.stage = "transport"
    THEN <<Part("transport", Loc(get_user_language(cache, DEFAULT_LANGUAGE)), st.arg)>>
    ELSE IF st.stage = "faq"
    THEN <<Part("faq", "", st.arg), Part("blank", "", None),
           Part("follow_up", Loc(language), None)>>
    ELSE IF st.stage = "similar"
    THEN <<Part("did_you_mean", Loc(language), st.arg)>>
    ELSE IF st.stage = "non_service_strict"
    THEN <<Part("returning_clients_only", Loc(language), st.arg)>>
    ELSE <<Part("not_offered", "en", st.arg)>>

\* StaticReply with the message stored in the chat history before the reply
StaticReply_appends(cache, user_input, st, k, events) ==
    Ret(store_user_interaction(cache, user_input),
        StaticParts(cache, st, k.language),
        events \o <<Ev(StageStep(st.stage), k.depth, user_input)>>)

\* lines 552-583: a stage that answers returns its reply at once; the
\* session is not written
StaticReply(cache, user_input, st, k, events) ==
    Ret(cache,
        StaticParts(cache, st, k.language),
        events \o <<Ev(StageStep(st.stage), k.depth, user_input)>>)

\* The stages of one call from the transport lookup on (lines 550-851), run
\* on user_input with the call's context k; and the call itself (lines 488-548)
RECURSIVE Resolve(_, _, _, _)
RECURSIVE generate_dynamic_response(_, _, _, _, _, _, _, _)

\* Splice with the confirmation or introduction left off
Splice_dropsLead(lead, r, events) ==
    IF r.raised THEN Raise(r.cache, events \o r.events)
    ELSE Ret(r.cache, r.reply, events \o r.events)

\* a nested call's result spliced behind  lead  (confirmation or introduction)
Splice(lead, r, events) ==
    IF r.raised THEN Raise(r.cache, events \o r.events)
    ELSE Ret(r.cache, lead \o r.reply, events \o r.events)

Resolve(cache, user_input, k, events) ==
    LET d == k.depth
        st == k.stages[user_input]
        tx == k.texts[user_input]
        ev0 == events \o <<Ev("resolve", d, user_input)>>
        offer == Continuation(k.tenant, cache, tx.lower)
        detected == k.env.detected
        consulted == DetectorConsulted(tx.strip, k.skip_language_switch)
        ev1 == ev0 \o (IF consulted THEN <<Ev("detect", d, user_input)>> ELSE <<>>)
        new_lang == ExplicitSwitch(tx.switch, k.force_language, k.skip_language_switch)
    IN  IF st.stage \in StaticStages
        THEN StaticReply(cache, user_input, st, k, ev0)
        ELSE IF st.stage = "redirect"
        THEN RedirectReply(cache, user_input, st, k, ev0)
        ELSE IF offer # ""
        THEN Ret([cache EXCEPT !.context_last_offer = ""],
                 <<Part(offer, IF offer = "service_suggestions" THEN "en" ELSE Loc(k.language), None)>>,
                 ev0 \o <<Ev("continuation", d, user_input)>>)
        ELSE IF consulted /\ detected # "fail" /\ OfferDue(cache, k.user_language, detected)
        THEN Ret(MarkSwitchAsked(cache),
                 <<Part("switch_offer", detected, None)>>,
                 ev1 \o <<Ev("offer", d, user_input)>>)
        ELSE IF new_lang # ""
        THEN LET c1 == set_user_language(cache, new_lang)
                 go == SwitchResume(c1, tx.remainder, k.legacy)
                 a == SwitchCallArgs(new_lang)
                 ev2 == ev1 \o <<Ev("switch", d, user_input), Ev(go.kind, d, go.text)>>
                 confirm == Part("switch_confirm", new_lang, None)
             IN  IF go.kind = "re_error" THEN Raise(go.cache, ev2)
                 ELSE IF go.kind = "confirm_only" THEN Ret(go.cache, <<confirm>>, ev2)
                 ELSE Splice(<<confirm, Part("blank", "", None)>>,
                             generate_dynamic_response(go.cache, go.text, a.user_language,
                                 a.force_language, a.skip_pending, a.skip_language_switch,
                                 k, d + 1),
                             ev2)
        ELSE LET c1 == StorePrevious(cache, user_input, tx.strip_lower)
                 ev2 == ev1 \o (IF c1 # cache \/ c1.previous_message = user_input
                                THEN <<Ev("store_previous", d, user_input)>> ELSE <<>>)
                 pending == IF ~k.skip_pending THEN c1.pending_message ELSE None
                 a == ResumeCallArgs(k.language)
             IN  IF pending # None
                 THEN Splice(<<Part("intro", Loc(k.language), k.user_name)>>,
                             generate_dynamic_response(ConsumePending(c1), pending,
                                 a.user_language, a.force_language, a.skip_pending,
                                 a.skip_language_switch, k, d + 1),
                             ev2 \o <<Ev("deferred_resume", d, pending)>>)
                 ELSE Fallback(c1, user_input, k, ev2)

\* ResolvedText with the message of the request kept
ResolvedText_keepsInput(user_input, pending) == user_input

\* lines 540-541: the buffered message, where there is one, becomes the text
\* the stages run on
ResolvedText(user_input, pending) ==
    IF pending # None THEN pending ELSE user_input

\* IsBlank with the test left out
IsBlank_never(stripped) == FALSE

\* line 491: user_input.strip() == ""
IsBlank(stripped) == stripped = <<>>

\* generate_dynamic_response(user_input, user_id, user_language, force_language,
\* skip_pending, skip_language_switch), called at depth  depth  by a request
\* whose tenant, interpreter and collaborators' answers are  req
generate_dynamic_response(cache, user_input, user_language, force_language, skip_pending, skip_language_switch, req, depth) ==
    LET called == <<Ev("call", depth, user_input)>>
        language == ActiveLanguage(cache, user_language, force_language)
        capturing == AwaitingName(cache)
        name == IF capturing THEN ExtractName(user_input, language) ELSE cache.user_name
        pending == IF capturing THEN cache.pending_message ELSE None
        c2 == IF capturing THEN AfterName(cache, name, pending) ELSE cache
        k == [tenant |-> req.tenant, legacy |-> req.legacy, env |-> req.env,
              stages |-> req.stages, texts |-> req.texts,
              depth |-> depth, user_language |-> user_language,
              force_language |-> force_language, skip_pending |-> skip_pending,
              skip_language_switch |-> skip_language_switch, language |-> language,
              user_name |-> name, chat_history |-> cache.chat_history,
              intro |-> IF pending # None
                        THEN <<Part("intro", Loc(language), name)>> ELSE <<>>]
    IN  IF depth > MaxCallDepth
        THEN Raise(cache, called \o <<Ev("recursion_error", depth, None)>>)
        ELSE IF IsBlank(req.texts[user_input].strip)
        THEN Ret(cache, <<Part("anything_else", "en", None)>>, called)
        ELSE IF cache.user_name = None /\ ~cache.asked_for_name
        THEN Ret(AskForName(cache, user_input), <<Part("name_prompt", "de", None)>>,
                 called \o <<Ev("name_prompt", depth, user_input)>>)
        ELSE Resolve(c2, ResolvedText(user_input, pending), k,
                     called \o (IF capturing THEN <<Ev("name_capture", depth, user_input)>> ELSE <<>>)
                            \o (IF pending # None THEN <<Ev("replay_pending", depth, pending)>> ELSE <<>>))

---------------------------------------------------------------------------
(* The service *)

Tom == <<"T", "o", "m">>

Prices == <<"w", "h", "a", "t", " ", "a", "r", "e", " ", "y", "o", "u", "r", " ", "p", "r", "i", "c", "e", "s">>

\* the session of the user Tom, skip_intro expired
NamedSession == [EmptySession EXCEPT !.user_name = Tom]

\* the session of Tom after one message answered by the text backend, whose
\* answer recommended something
OfferedSession ==
    [NamedSession EXCEPT !.previous_message = Prices,
                         !.chat_history = <<Prices>>,
                         !.context_last_offer = "eunoia_contact_info"]

\* the session of Tom after MEMORY_LIMIT messages answered by the text backend
FullSession ==
    [NamedSession EXCEPT !.previous_message = Tom,
                         !.chat_history = <<Tom, Prices, Tom, Prices, Tom>>]

\* the session of a new user after the first message, Prices: the name was
\* asked for and the message is buffered
AwaitingSession ==
    [EmptySession EXCEPT !.asked_for_name = TRUE, !.pending_message = Prices]

\* the sessions of a new user after the first message, whatever it was; a
\* blank message is answered before the name step (line 491) and never
\* buffered
AwaitingSessions ==
    {[EmptySession EXCEPT !.asked_for_name = TRUE, !.pending_message = m] :
        m \in {x \in Messages : strip(x) # <<>>}}

\* the session of Tom after the message 'speak english'
EnglishSession == [NamedSession EXCEPT !.user_language = "en"]

\* the session of Tom after a message that was answered by the switch offer
AskedSession == [NamedSession EXCEPT !.asked_language_switch = AskedSwitchTTL]

\* the session of Tom after a message that was answered by the referral to
\* the sister studio
ReferredSession(t) == [NamedSession EXCEPT !.context_last_offer = RedirectOffer(t)]

\* the session two requests of a new user leave that were served together,
\* Prices and Tom: the second stored the name and found no message
\* buffered, the first buffered its message after that
LeftoverSession ==
    [NamedSession EXCEPT !.pending_message = Prices,
                         !.previous_message = Tom,
                         !.chat_history = <<Tom>>]

\* app.run (line 886) serves every /chat request in a thread of its own:
\* the requests of one user that are served step by step, any of them
\* together
Requests == {1, 2, 3}

\* a request not yet received: the local variables of its call
Idle ==
    [pc |-> "idle", user_input |-> None, user_language |-> "", force_language |-> "",
     skip_pending |-> FALSE, skip_language_switch |-> FALSE, depth |-> 0,
     chat_history |-> <<>>, user_name |-> None, asked_name_flag |-> FALSE,
     language |-> "", pending |-> None, intro |-> <<>>, lead |-> <<>>,
     stage |-> [stage |-> "none", arg |-> None], last_offer |-> "",
     detected_lang |-> "", previous_message |-> None,
     reply |-> <<>>, raised |-> FALSE,
     took |-> <<>>,         \* the pending messages it read
     resolved |-> <<>>,     \* the texts it ran through the stages
     pushed |-> <<>>]       \* the texts it appended to the chat history

At(r, pc) == inflight[r].pc = pc

\* every request received so far has been answered: its reply was sent and
\* its thread has ended ("gone")
NobodyInFlight == \A r \in Requests : inflight[r].pc \in {"idle", "gone"}

\* the requests received so far: those served in one step and those served
\* step by step
Received == turns + Cardinality({r \in Requests : ~At(r, "idle")})

\* no request served in one step is on record
NoTurn ==
    [input |-> None, declared |-> "", reply |-> <<>>, events |-> <<>>,
     raised |-> FALSE, later |-> FALSE]

\* a session nothing is stored for, or one of the sessions above; no request
\* is in flight
Init ==
    /\ tenant \in Tenants
    /\ user_cache \in {EmptySession, NamedSession, OfferedSession, FullSession,
                        EnglishSession, AskedSession, LeftoverSession,
                        ReferredSession(tenant)}
                           \cup AwaitingSessions
    /\ turn = NoTurn
    /\ turns = 0
    /\ re_legacy \in BOOLEAN
    /\ inflight = [r \in Requests |-> Idle]

\* line 879: generate_dynamic_response(user_message, user_id, user_language)
\* on the session  cache , with the collaborators answering as given
Serve(cache, message, declared, detected, gpt, partner_ok) ==
    generate_dynamic_response(cache, message, declared, "", FALSE, FALSE,
        [tenant |-> tenant, legacy |-> re_legacy,
         stages |-> StageTable[tenant][partner_ok], texts |-> TextTable,
         env |-> [detected |-> detected, gpt |-> gpt, partner_ok |-> partner_ok]],
        0)

\* POST /chat for a request that no other request of the user overlaps: its
\* store operations follow one another with no operation of another request
\* in between, so it is served to the end in one step.  The requests served
\* before have returned.  The same request is also served step by step
\* (Receive, Step), and then other requests may run in between.
Chat(message, declared, detected, gpt, partner_ok) ==
    /\ NobodyInFlight
    /\ \E r \in {Serve(user_cache, message, declared, detected, gpt, partner_ok)} :
           /\ user_cache' = r.cache
           /\ turn' = [input |-> message, declared |-> declared, reply |-> r.reply,
                       events |-> r.events, raised |-> r.raised, later |-> FALSE]
    /\ turns' = turns + 1
    /\ UNCHANGED <<tenant, re_legacy, inflight>>

\* Tick with the recorded offer expiring as the time passes
Tick_expiresOffer(seconds) ==
    /\ NobodyInFlight
    /\ ~turn.later
    /\ user_cache.skip_intro > 0 \/ user_cache.asked_language_switch > 0
    /\ user_cache' = [user_cache EXCEPT
           !.skip_intro = IF @ > seconds THEN @ - seconds ELSE 0,
           !.asked_language_switch = IF @ > seconds THEN @ - seconds ELSE 0,
           !.context_last_offer = ""]
    /\ turn' = [turn EXCEPT !.later = TRUE]
    /\ UNCHANGED <<turns, tenant, re_legacy, inflight>>

\* time passes between two requests: the TTLs of the expiring keys run down
Tick(seconds) ==
    /\ NobodyInFlight
    /\ ~turn.later
    /\ user_cache.skip_intro > 0 \/ user_cache.asked_language_switch > 0
    /\ user_cache' = [user_cache EXCEPT
           !.skip_intro = IF @ > seconds THEN @ - seconds ELSE 0,
           !.asked_language_switch = IF @ > seconds THEN @ - seconds ELSE 0]
    /\ turn' = [turn EXCEPT !.later = TRUE]
    /\ UNCHANGED <<turns, tenant, re_legacy, inflight>>

---------------------------------------------------------------------------
(* Requests of one user served at the same time: one store operation a step *)

\* the call of request r returns  parts ; an enclosing call puts its
\* confirmation or introduction in front (lines 672 and 703)
Return(r, parts) ==
    [inflight EXCEPT ![r].pc = "done", ![r].reply = inflight[r].lead \o parts]

\* the call of request r calls generate_dynamic_response on  text  with the
\* arguments  a  and will put  lead  in front of what the call returns
NestedCall(r, text, a, lead) ==
    [inflight EXCEPT
        ![r].pc = "load_history",
        ![r].user_input = text,
        ![r].user_language = a.user_language,
        ![r].force_language = a.force_language,
        ![r].skip_pending = a.skip_pending,
        ![r].skip_language_switch = a.skip_language_switch,
        ![r].depth = @ + 1,
        ![r].pending = None,
        ![r].previous_message = None,
        ![r].intro = <<>>,
        ![r].lead = lead]

\* lines 875-879, 491-492: the request is received, whatever the requests
\* received before are at; a blank message is answered at once.  The
\* requests are numbered in the order they are received in.  What is on
\* record of the last request served in one step no longer describes the
\* session.
Receive(r, message, declared) ==
    /\ At(r, "idle")
    /\ \A q \in Requests : q < r => ~At(q, "idle")
    /\ turn' = NoTurn
    /\ inflight' =
           IF IsBlank(TextTable[message].strip)
           THEN [inflight EXCEPT ![r].pc = "done", ![r].user_input = message,
                                 ![r].reply = <<Part("anything_else", "en", None)>>]
           ELSE [inflight EXCEPT ![r].pc = "load_history", ![r].user_input = message,
                                 ![r].user_language = declared]
    /\ UNCHANGED <<user_cache, turns, tenant, re_legacy>>

\* lines 499-502: four reads of the store, one at a time; then the branch of
\* lines 522 and 527
LoadContext(r) ==
    /\ \/ /\ At(r, "load_history")
          /\ inflight' = [inflight EXCEPT ![r].pc = "load_name",
                             ![r].chat_history = user_cache.chat_history]
       \/ /\ At(r, "load_name")
          /\ inflight' = [inflight EXCEPT ![r].pc = "load_flag",
                             ![r].user_name = user_cache.user_name]
       \/ /\ At(r, "load_flag")
          /\ inflight' = [inflight EXCEPT ![r].pc = "load_language",
                             ![r].asked_name_flag = user_cache.asked_for_name]
       \/ /\ At(r, "load_language")
          /\ inflight' = [inflight EXCEPT
                 ![r].language = ActiveLanguage(user_cache, inflight[r].user_language,
                                                inflight[r].force_language),
                 ![r].pc = IF inflight[r].user_name # None THEN "transport"
                           ELSE IF inflight[r].asked_name_flag THEN "store_name"
                           ELSE "set_asked"]
    /\ UNCHANGED <<user_cache, turn, turns, tenant, re_legacy>>

\* AskName with the message buffered only where none is buffered yet
AskName_keepsFirst(r) ==
    /\ \/ /\ At(r, "set_asked")
          /\ user_cache' = [user_cache EXCEPT !.asked_for_name = TRUE]
          /\ inflight' = [inflight EXCEPT ![r].pc = "set_pending"]
       \/ /\ At(r, "set_pending")
          /\ user_cache' = IF user_cache.pending_message = None
                           THEN [user_cache EXCEPT !.pending_message = inflight[r].user_input]
                           ELSE user_cache
          /\ inflight' = Return(r, <<Part("name_prompt", "de", None)>>)
    /\ UNCHANGED <<turn, turns, tenant, re_legacy>>

\* lines 522-525: two writes, then the name prompt
AskName(r) ==
    /\ \/ /\ At(r, "set_asked")
          /\ user_cache' = [user_cache EXCEPT !.asked_for_name = TRUE]
          /\ inflight' = [inflight EXCEPT ![r].pc = "set_pending"]
       \/ /\ At(r, "set_pending")
          /\ user_cache' = [user_cache EXCEPT !.pending_message = inflight[r].user_input]
          /\ inflight' = Return(r, <<Part("name_prompt", "de", None)>>)
    /\ UNCHANGED <<turn, turns, tenant, re_legacy>>

\* lines 527-538: the name is stored, the flag deleted, pending_message read
\* and then deleted
NameCapture(r) ==
    /\ \/ /\ At(r, "store_name")
          /\ \E name \in {ExtractName(inflight[r].user_input, inflight[r].language)} :
                /\ user_cache' = [user_cache EXCEPT !.user_name = name]
                /\ inflight' = [inflight EXCEPT ![r].pc = "delete_flag",
                                                ![r].user_name = name]
       \/ /\ At(r, "delete_flag")
          /\ user_cache' = [user_cache EXCEPT !.asked_for_name = FALSE]
          /\ inflight' = [inflight EXCEPT ![r].pc = "get_pending"]
       \/ /\ At(r, "get_pending")
          /\ user_cache' = user_cache
          /\ inflight' = [inflight EXCEPT
                 ![r].pc = "delete_pending",
                 ![r].pending = user_cache.pending_message,
                 ![r].took = IF user_cache.pending_message # None
                             THEN Append(@, user_cache.pending_message) ELSE @]
       \/ /\ At(r, "delete_pending")
          /\ user_cache' = [user_cache EXCEPT !.pending_message = None]
          /\ inflight' = [inflight EXCEPT
                 ![r].pc = IF inflight[r].pending # None THEN "take_over" ELSE "transport"]
    /\ UNCHANGED <<turn, turns, tenant, re_legacy>>

\* lines 540-548: the buffered message becomes the input; pending_message
\* is deleted once more and skip_intro armed
TakeOver(r) ==
    /\ \/ /\ At(r, "take_over")
          /\ user_cache' = [user_cache EXCEPT !.pending_message = None]
          /\ inflight' = [inflight EXCEPT ![r].pc = "arm_skip_intro",
                                          ![r].user_input = inflight[r].pending]
       \/ /\ At(r, "arm_skip_intro")
          /\ user_cache' = [user_cache EXCEPT !.skip_intro = SkipIntroTTL]
          /\ inflight' = [inflight EXCEPT
                 ![r].pc = "transport",
                 ![r].intro = <<Part("intro", Loc(inflight[r].language),
                                     inflight[r].user_name)>>]
    /\ UNCHANGED <<turn, turns, tenant, re_legacy>>

\* lines 550-590: the transport lookup reads user_language (line 178); a
\* stage that answers from the business data returns; the redirect stage
\* writes context_last_offer (line 588), then calls the text backend for the
\* referral (line 589) and returns it or, when the call fails, the fixed one
EarlyStages(r, partner_ok, gpt) ==
    /\ \/ /\ At(r, "transport")
          /\ user_cache' = user_cache
          /\ \E st \in {StageTable[tenant][partner_ok][inflight[r].user_input]} :
                inflight' =
                    IF st.stage \in StaticStages
                    THEN [Return(r, StaticParts(user_cache, st, inflight[r].language))
                             EXCEPT ![r].resolved = Append(@, inflight[r].user_input)]
                    ELSE [inflight EXCEPT
                             ![r].pc = IF st.stage = "redirect" THEN "set_redirect_offer"
                                       ELSE "last_offer",
                             ![r].stage = st,
                             ![r].resolved = Append(@, inflight[r].user_input)]
       \/ /\ At(r, "set_redirect_offer")
          /\ user_cache' = [user_cache EXCEPT !.context_last_offer = RedirectOffer(tenant)]
          /\ inflight' = [inflight EXCEPT ![r].pc = "referral"]
       \/ /\ At(r, "referral")
          /\ user_cache' = user_cache
          /\ inflight' = Return(r,
                 <<IF gpt = "fail"
                   THEN Part("referral_fallback", Loc(inflight[r].language), inflight[r].stage.arg)
                   ELSE Part("referral", inflight[r].language, inflight[r].stage.arg)>>)
    /\ UNCHANGED <<turn, turns, tenant, re_legacy>>

\* lines 593-605: context_last_offer is read; where the message takes the
\* offer up the key is deleted and the fixed reply returned
TakeUpOffer(r) ==
    /\ \/ /\ At(r, "last_offer")
          /\ user_cache' = user_cache
          /\ \E offer \in {Continuation(tenant, user_cache,
                                        TextTable[inflight[r].user_input].lower)} :
                inflight' = [inflight EXCEPT
                    ![r].last_offer = offer,
                    ![r].pc = IF offer # "" THEN "delete_offer" ELSE "detect"]
       \/ /\ At(r, "delete_offer")
          /\ user_cache' = [user_cache EXCEPT !.context_last_offer = ""]
          /\ inflight' = Return(r,
                 <<Part(inflight[r].last_offer,
                        IF inflight[r].last_offer = "service_suggestions" THEN "en"
                        ELSE Loc(inflight[r].language),
                        None)>>)
    /\ UNCHANGED <<turn, turns, tenant, re_legacy>>

\* lines 608-625: the detector, the read of the stored language (line 612),
\* the read of the asked_language_switch marker (line 618) and its write
\* (line 620) with the offer
LanguageStage(r, detected) ==
    /\ \/ /\ At(r, "detect")
          /\ user_cache' = user_cache
          /\ inflight' =
                 IF ~DetectorConsulted(TextTable[inflight[r].user_input].strip,
                                       inflight[r].skip_language_switch)
                 THEN [inflight EXCEPT ![r].pc = "previous"]
                 ELSE [inflight EXCEPT
                          ![r].detected_lang = detected,
                          ![r].pc = IF LET stored_lang ==
                                               get_user_language(user_cache,
                                                                 inflight[r].user_language)
                                       IN  /\ detected \in {"de", "en"}
                                           /\ stored_lang \in {"de", "en"}
                                           /\ stored_lang # detected
                                    THEN "get_marker" ELSE "previous"]
       \/ /\ At(r, "get_marker")
          /\ user_cache' = user_cache
          /\ inflight' = [inflight EXCEPT
                 ![r].pc = IF user_cache.asked_language_switch = 0
                           THEN "set_marker" ELSE "previous"]
       \/ /\ At(r, "set_marker")
          /\ user_cache' = MarkSwitchAsked(user_cache)
          /\ inflight' = Return(r, <<Part("switch_offer", inflight[r].detected_lang, None)>>)
    /\ UNCHANGED <<turn, turns, tenant, re_legacy>>

\* lines 629-676.  For a text with a switch trigger user_language is written
\* (line 635) and previous_message read (643); then pending_message is
\* deleted and the confirmation returned (655), or previous_message is
\* deleted (659) and the nested call made, or it is made on what the regex
\* leaves of the message.  For a text without one previous_message is
\* written (676).
SwitchOrRemember(r) ==
    /\ \/ /\ At(r, "previous")
          /\ \E new_lang \in {ExplicitSwitch(TextTable[inflight[r].user_input].switch,
                                             inflight[r].force_language,
                                             inflight[r].skip_language_switch)} :
                IF new_lang # ""
                THEN /\ user_cache' = set_user_language(user_cache, new_lang)
                     /\ inflight' = [inflight EXCEPT ![r].pc = "get_previous",
                                                     ![r].language = new_lang]
                ELSE /\ user_cache' = StorePrevious(user_cache, inflight[r].user_input,
                                            TextTable[inflight[r].user_input].strip_lower)
                     /\ inflight' = [inflight EXCEPT
                            ![r].pc = IF inflight[r].skip_pending THEN "get_skip_intro"
                                      ELSE "get_pending_later"]
       \/ /\ At(r, "get_previous")
          /\ user_cache' = user_cache
          /\ \E go \in {SwitchResume(user_cache, TextTable[inflight[r].user_input].remainder,
                                     re_legacy)} :
                inflight' =
                    IF go.kind = "previous"
                    THEN [inflight EXCEPT ![r].pc = "delete_previous",
                                          ![r].previous_message = go.text]
                    ELSE IF go.kind = "re_error"
                    THEN [inflight EXCEPT ![r].pc = "done", ![r].raised = TRUE]
                    ELSE IF go.kind = "remainder"
                    THEN NestedCall(r, go.text, SwitchCallArgs(inflight[r].language),
                                    <<Part("switch_confirm", inflight[r].language, None),
                                      Part("blank", "", None)>>)
                    ELSE [inflight EXCEPT ![r].pc = "delete_pending_switch"]
       \/ /\ At(r, "delete_pending_switch")
          /\ user_cache' = [user_cache EXCEPT !.pending_message = None]
          /\ inflight' = Return(r, <<Part("switch_confirm", inflight[r].language, None)>>)
       \/ /\ At(r, "delete_previous")
          /\ user_cache' = [user_cache EXCEPT !.previous_message = None]
          /\ inflight' = NestedCall(r, inflight[r].previous_message,
                                    SwitchCallArgs(inflight[r].language),
                                    <<Part("switch_confirm", inflight[r].language, None),
                                      Part("blank", "", None)>>)
    /\ UNCHANGED <<turn, turns, tenant, re_legacy>>

\* lines 678-703: pending_message is read, deleted, skip_intro armed and the
\* nested call made, in front of whose reply the introduction is put
ResumePending(r) ==
    /\ \/ /\ At(r, "get_pending_later")
          /\ user_cache' = user_cache
          /\ inflight' = [inflight EXCEPT
                 ![r].pending = user_cache.pending_message,
                 ![r].took = IF user_cache.pending_message # None
                             THEN Append(@, user_cache.pending_message) ELSE @,
                 ![r].pc = IF user_cache.pending_message # None
                           THEN "delete_pending_later" ELSE "get_skip_intro"]
       \/ /\ At(r, "delete_pending_later")
          /\ user_cache' = [user_cache EXCEPT !.pending_message = None]
          /\ inflight' = [inflight EXCEPT ![r].pc = "arm_skip_intro_later"]
       \/ /\ At(r, "arm_skip_intro_later")
          /\ user_cache' = [user_cache EXCEPT !.skip_intro = SkipIntroTTL]
          /\ inflight' = NestedCall(r, inflight[r].pending,
                                    ResumeCallArgs(inflight[r].language),
                                    <<Part("intro", Loc(inflight[r].language),
                                           inflight[r].user_name)>>)
    /\ UNCHANGED <<turn, turns, tenant, re_legacy>>

\* lines 706-851: skip_intro is read and refreshed, the message pushed to
\* the chat history and the history trimmed (lines 129-130), the backend
\* called with the history as loaded, and the offer recorded (line 818)
Generate(r, gpt) ==
    /\ \/ /\ At(r, "get_skip_intro")
          /\ user_cache' = user_cache
          /\ inflight' = [inflight EXCEPT
                 ![r].pc = IF user_cache.skip_intro > 0 THEN "refresh_skip_intro" ELSE "rpush"]
       \/ /\ At(r, "refresh_skip_intro")
          /\ user_cache' = RefreshSkipIntro(user_cache)
          /\ inflight' = [inflight EXCEPT ![r].pc = "rpush"]
       \/ /\ At(r, "rpush")
          /\ user_cache' = rpush(user_cache, inflight[r].user_input)
          /\ inflight' = [inflight EXCEPT ![r].pc = "ltrim",
                             ![r].pushed = Append(@, inflight[r].user_input)]
       \/ /\ At(r, "ltrim")
          /\ user_cache' = ltrim(user_cache)
          /\ inflight' = [inflight EXCEPT ![r].pc = "backend"]
       \/ /\ At(r, "backend")
          /\ user_cache' = user_cache
          /\ inflight' =
                 IF gpt = "fail" THEN Return(r, <<Part("apology", "en", None)>>)
                 ELSE IF gpt = "offer" THEN [inflight EXCEPT ![r].pc = "set_offer"]
                 ELSE Return(r, inflight[r].intro
                                 \o <<Part("gpt", Loc(inflight[r].language),
                                           inflight[r].user_input)>>)
       \/ /\ At(r, "set_offer")
          /\ user_cache' = [user_cache EXCEPT !.context_last_offer = "eunoia_contact_info"]
          /\ inflight' = Return(r, inflight[r].intro
                                    \o <<Part("gpt", Loc(inflight[r].language),
                                              inflight[r].user_input)>>)
    /\ UNCHANGED <<turn, turns, tenant, re_legacy>>

\* lines 880-882: the reply of the call is sent and the thread ends,
\* whatever the other requests are at
Respond(r) ==
    /\ At(r, "done")
    /\ inflight' = [inflight EXCEPT ![r] = [Idle EXCEPT !.pc = "gone"]]
    /\ UNCHANGED <<user_cache, turn, turns, tenant, re_legacy>>

\* the call of request r goes on by one store operation, or returns; the
\* detector answers one of  detectors
Step(r, detectors) ==
    \/ LoadContext(r)
    \/ AskName(r)
    \/ NameCapture(r)
    \/ TakeOver(r)
    \/ \E partner_ok \in PartnerOutcomes, gpt \in BackendOutcomes : EarlyStages(r, partner_ok, gpt)
    \/ TakeUpOffer(r)
    \/ \E detected \in detectors : LanguageStage(r, detected)
    \/ SwitchOrRemember(r)
    \/ ResumePending(r)
    \/ \E gpt \in BackendOutcomes : Generate(r, gpt)
    \/ Respond(r)

\* a request served from its first to its last store operation with no
\* other request in flight
ServedAlone ==
    /\ Received < MaxTurns
    /\ \E message \in Messages, declared \in DeclaredLanguages,
          detected \in DetectorOutcomes, gpt \in BackendOutcomes, partner_ok \in PartnerOutcomes :
           Chat(message, declared, detected, gpt, partner_ok)

\* a request is served in one step, or step by step; time passes between
\* requests
Next ==
    \/ ServedAlone
    \/ \E seconds \in TickSteps : Tick(seconds)
    \/ \E r \in Requests :
           \/ /\ Received < MaxTurns
              /\ \E message \in Messages, declared \in DeclaredLanguages :
                     Receive(r, message, declared)
           \/ Step(r, DetectorOutcomes)

Spec == Init /\ [][Next]_vars

---------------------------------------------------------------------------
(* Requests of a user who is new, was asked for the name, or was made an
   offer: one after the other or at the same time *)

ConcurrentInit ==
    /\ user_cache \in {EmptySession, AwaitingSession, OfferedSession}
    /\ turn = NoTurn
    /\ turns = 0
    /\ tenant \in Tenants
    /\ re_legacy \in BOOLEAN
    /\ inflight = [r \in Requests |-> Idle]

\* the messages of the requests: a name, a question that goes to the text
\* backend, the taking up of an offer, and a switch of the language
OverlappingMessages == {Tom, Prices, <<"y", "e", "s">>, SpeakEnglish}

\* the language the requests declare
ConcurrentDeclared == {"de"}

\* what langdetect.detect answers for them
ConcurrentDetector == {"de", "en"}

ConcurrentServedAlone ==
    /\ Received < MaxConcurrentTurns
    /\ \E message \in OverlappingMessages, declared \in ConcurrentDeclared,
          detected \in ConcurrentDetector, gpt \in BackendOutcomes, partner_ok \in PartnerOutcomes :
           Chat(message, declared, detected, gpt, partner_ok)

ConcurrentNext ==
    \/ ConcurrentServedAlone
    \/ \E seconds \in TickSteps : Tick(seconds)
    \/ \E r \in Requests :
           \/ /\ Received < MaxConcurrentTurns
              /\ \E message \in OverlappingMessages, declared \in ConcurrentDeclared :
                     Receive(r, message, declared)
           \/ Step(r, ConcurrentDetector)

ConcurrentSpec == ConcurrentInit /\ [][ConcurrentNext]_vars

---------------------------------------------------------------------------
(* Three requests of a new user, each received whatever the others are at; the
   detector answers as in ConcurrentSpec *)

\* (the messages hold no switch trigger, so the regex of line 646 is not
\* reached and the version of re is immaterial)
RaceInit ==
    /\ user_cache = EmptySession
    /\ turn = NoTurn
    /\ turns = 0
    /\ tenant \in Tenants
    /\ re_legacy = FALSE
    /\ inflight = [r \in Requests |-> Idle]

\* the messages of the requests: a name and a question
RaceMessages == {Tom, Prices}

RaceServedAlone ==
    /\ Received < MaxRaceTurns
    /\ \E message \in RaceMessages, declared \in ConcurrentDeclared,
          detected \in ConcurrentDetector, gpt \in BackendOutcomes, partner_ok \in PartnerOutcomes :
           Chat(message, declared, detected, gpt, partner_ok)

RaceNext ==
    \/ RaceServedAlone
    \/ \E seconds \in TickSteps : Tick(seconds)
    \/ \E r \in Requests :
           \/ /\ Received < MaxRaceTurns
              /\ \E message \in RaceMessages, declared \in ConcurrentDeclared :
                     Receive(r, message, declared)
           \/ Step(r, ConcurrentDetector)

RaceSpec == RaceInit /\ [][RaceNext]_vars

---------------------------------------------------------------------------
(* The answers to the name prompt *)

\* the user is new or was asked for the name
NameInit ==
    /\ user_cache \in {EmptySession, AwaitingSession}
    /\ turn = NoTurn
    /\ turns = 0
    /\ tenant \in Tenants
    /\ re_legacy \in BOOLEAN
    /\ inflight = [r \in Requests |-> Idle]

\* an answer to the name prompt, served with no other request in flight
NameServedAlone ==
    /\ Received < MaxTurns
    /\ \E message \in NameReplies, declared \in DeclaredLanguages,
          detected \in DetectorOutcomes, gpt \in BackendOutcomes, partner_ok \in PartnerOutcomes :
           Chat(message, declared, detected, gpt, partner_ok)

\* the user sends an answer to the name prompt
NameNext ==
    \/ NameServedAlone
    \/ \E seconds \in TickSteps : Tick(seconds)
    \/ \E r \in Requests :
           \/ /\ Received < MaxTurns
              /\ \E message \in NameReplies, declared \in DeclaredLanguages :
                     Receive(r, message, declared)
           \/ Step(r, DetectorOutcomes)

NameSpec == NameInit /\ [][NameNext]_vars

---------------------------------------------------------------------------
(* Properties *)

\* the last request took the step  e  (at any call depth)
HasEv(e) == \E i \in DOMAIN turn.events : turn.events[i].ev = e

\* how often  x  stands in the sequence  s
Count(x, s) == Cardinality({i \in DOMAIN s : s[i] = x})

\* the step is a request
ChatStep == turns' = turns + 1

NamePrompt == <<Part("name_prompt", "de", None)>>

\* the kinds of reply part that answer a message
AnswerKinds(reply) ==
    {reply[i].kind : i \in DOMAIN reply} \ {"switch_offer", "switch_confirm", "blank", "intro"}

\* the reply of the request  t  starts with a switch confirmation
StartsWithConfirm(t) ==
    ~t.raised /\ Len(t.reply) > 0 /\ t.reply[1].kind = "switch_confirm"

\* C1 (as claimed): for a user with no stored name and no awaiting_name flag,
\* a message of ANY content is answered with the name prompt, is stored
\* verbatim as pending_message, sets awaiting_name and runs no resolver stage.
C1_AnyContentAsksForName ==
    [][(ChatStep /\ user_cache.user_name = None /\ ~user_cache.asked_for_name)
        => /\ turn'.reply = NamePrompt
           /\ user_cache'.pending_message = turn'.input
           /\ user_cache'.asked_for_name
           /\ \A i \in DOMAIN turn'.events : turn'.events[i].ev # "resolve"]_vars

\* C1 (amended): for a user with no stored name and no awaiting_name flag, a
\* message that is not blank is answered with the name prompt, is stored
\* verbatim as pending_message, sets awaiting_name and runs no resolver
\* stage; nothing else of the session changes.
C1_NonBlankAsksForName ==
    [][(ChatStep /\ user_cache.user_name = None /\ ~user_cache.asked_for_name
          /\ strip(turn'.input) # <<>>)
        => /\ turn'.reply = NamePrompt
           /\ ~turn'.raised
           /\ user_cache' = [user_cache EXCEPT !.asked_for_name = TRUE,
                                               !.pending_message = turn'.input]
           /\ \A i \in DOMAIN turn'.events : turn'.events[i].ev # "resolve"]_vars

\* a first message was buffered and the name asked for
C1_Witness ==
    /\ turn.reply = NamePrompt
    /\ strip(turn.input) # <<>>
    /\ user_cache.pending_message = turn.input
    /\ user_cache.asked_for_name
    /\ user_cache.user_name = None

\* C2 (as claimed): for a user in AWAITING_NAME the very next message,
\* REGARDLESS of its content, is consumed as the name reply: after the request
\* a display name is stored and awaiting_name is cleared.
C2_AnyContentIsName ==
    [][(ChatStep /\ user_cache.user_name = None /\ user_cache.asked_for_name)
        => /\ user_cache'.user_name # None
           /\ ~user_cache'.asked_for_name]_vars

\* C2 (amended): for a user in AWAITING_NAME the very next message that is
\* not blank is consumed as the name reply: after the request the display
\* name taken from it (or the honorific) is stored and awaiting_name is
\* cleared; a blank message leaves the user in AWAITING_NAME.
C2_NonBlankIsName ==
    [][(ChatStep /\ user_cache.user_name = None /\ user_cache.asked_for_name)
        => IF strip(turn'.input) # <<>>
           THEN /\ user_cache'.user_name =
                       ExtractName(turn'.input, ActiveLanguage(user_cache, turn'.declared, ""))
                /\ ~user_cache'.asked_for_name
           ELSE user_cache' = user_cache]_vars

\* a name reply was consumed
C2_Witness ==
    /\ HasEv("name_capture")
    /\ user_cache.user_name = <<"T", "o", "m">>
    /\ ~user_cache.asked_for_name

\* C3: the turn that supplies the name answers the buffered first message: its
\* reply holds a resolver-stage or fallback answer, it is never only a switch
\* offer or a bare switch confirmation, and the request does not fail with
\* the buffered text already deleted.
C3_BufferedMessageAnswered ==
    HasEv("name_capture") => ~turn.raised /\ AnswerKinds(turn.reply) # {}

\* C4: a message replayed in a request (pending_message after the name,
\* previous_message after a switch) is answered once and stands in the chat
\* history once: when it is appended and sent to the backend, neither the
\* history nor the messages sent hold it a second time.
C4_ReplayedOnce ==
    \A i, j \in DOMAIN turn.events :
        (/\ turn.events[i].ev \in {"previous", "replay_pending"}
         /\ turn.events[j].ev \in {"append", "gpt_call"}
         /\ turn.events[j].text = turn.events[i].text
         /\ i < j)
        => Count(turn.events[j].text, turn.events[j].hist) = 1

\* C5: no call is nested deeper than one level below the request's call, and
\* no request runs into the interpreter's recursion limit; nor is a call of
\* a request served step by step, overlapping another, nested deeper.
C5_DepthAtMostOne ==
    /\ \A i \in DOMAIN turn.events :
           turn.events[i].d <= 1 /\ turn.events[i].ev # "recursion_error"
    /\ \A r \in Requests : inflight[r].depth <= 1

\* a nested call was made after a switch and ran the pipeline
C5_Witness ==
    /\ HasEv("switch")
    /\ \E i \in DOMAIN turn.events : turn.events[i].ev = "resolve" /\ turn.events[i].d = 1

\* C6: for a user with a stored name, a message holding an explicit switch
\* trigger that no stage 1-5 answers gets the switch confirmation in the same
\* turn and the stored language becomes the requested one, whatever the
\* detector answers and whether or not an offer was made before.
C6_TriggerAlwaysSwitches ==
    (/\ turn.input # None
     /\ ~HasEv("name_prompt") /\ ~HasEv("name_capture")
     /\ switch_language(turn.input) # ""
     /\ \A i \in DOMAIN turn.events :
            turn.events[i].d = 0 =>
                turn.events[i].ev \notin {"transport", "faq", "similar", "non_service",
                                          "redirect", "continuation"})
    => /\ StartsWithConfirm(turn)
       /\ user_cache.user_language = switch_language(turn.input)

\* C7: when the explicit-switch step fires, the stored language is the new one
\* when the turn ends, and the reply is the confirmation alone, or the
\* confirmation, a blank line and the reply of exactly one nested call in
\* which no detection, switch or pending handling runs.
C7_SwitchReplyShape ==
    \A i \in DOMAIN turn.events :
        turn.events[i].ev = "switch" =>
            LET new_lang == switch_language(turn.events[i].text)
                confirm == Part("switch_confirm", new_lang, None)
                nested == {j \in DOMAIN turn.events : turn.events[j].d >= 1}
            IN  /\ ~turn.raised
                /\ user_cache.user_language = new_lang
                /\ \/ turn.reply = <<confirm>> /\ nested = {}
                   \/ /\ Len(turn.reply) >= 3
                      /\ turn.reply[1] = confirm
                      /\ turn.reply[2] = Part("blank", "", None)
                      /\ Cardinality({j \in nested : turn.events[j].ev = "call"}) = 1
                      /\ \A j \in nested :
                            /\ turn.events[j].d = 1
                            /\ turn.events[j].ev \notin {"detect", "offer", "switch",
                                   "deferred_resume", "replay_pending", "name_prompt"}

\* C8: on an explicit switch the text resolved again is the remainder of the
\* message after stripping the trigger; previous_message is resumed only when
\* that remainder is not meaningful; with neither, the confirmation alone is
\* returned and pending_message is deleted.
C8_RemainderBeforePrevious ==
    \A i \in DOMAIN turn.events :
        turn.events[i].ev = "switch" =>
            LET rem == stripped_input(turn.events[i].text)
                go == turn.events[i + 1]
            IN  IF IsMeaningful(rem)
                THEN go.ev = "remainder" /\ go.text = rem
                ELSE IF go.ev = "previous"
                THEN TRUE
                ELSE /\ go.ev = "confirm_only"
                     /\ turn.reply = <<Part("switch_confirm", switch_language(turn.events[i].text), None)>>
                     /\ user_cache.pending_message = None

\* the message is exactly a switch trigger phrase
ExactTrigger(m) == lower(m) \in {SpeakEnglish, SprichDeutsch}

\* C9: for a user with a stored name, the exact trigger phrase sent in two
\* consecutive turns gets a reply starting with the switch confirmation both
\* times, and the stored language after the second turn is the one after the
\* first.
C9_SwitchTwice ==
    [][(/\ ChatStep
        /\ turn.input # None
        /\ ExactTrigger(turn.input)
        /\ turn'.input = turn.input
        /\ \A i \in DOMAIN turn.events :
               turn.events[i].ev \notin {"name_prompt", "name_capture"})
        => /\ StartsWithConfirm(turn)
           /\ StartsWithConfirm(turn')
           /\ user_cache'.user_language = user_cache.user_language]_vars

\* the session as the language stage of a request finds it: as the request
\* found it, or as the name step of the same call left it
BeforeLanguageStage(cache, user_input, declared) ==
    IF cache.user_name = None /\ cache.asked_for_name
    THEN ConsumePending(CaptureName(cache,
             ExtractName(user_input, ActiveLanguage(cache, declared, ""))))
    ELSE cache

\* C10: a switch offer is emitted only by the request's own call (depth 0),
\* when the detector's answer and the stored (else declared) language are
\* both in {de, en} and differ and no asked_language_switch marker is live;
\* emitting it sets the marker with a TTL of one hour and changes neither
\* the stored language nor any other field of the session.
C10_OfferConditionsAndFrame ==
    [][(ChatStep /\ \E i \in DOMAIN turn'.events : turn'.events[i].ev = "offer")
        => LET stored_lang == get_user_language(user_cache, turn'.declared)
               detected_lang == turn'.reply[1].lang
           IN  /\ \A i \in DOMAIN turn'.events :
                      turn'.events[i].ev = "offer" => turn'.events[i].d = 0
               /\ Len(turn'.reply) = 1 /\ turn'.reply[1].kind = "switch_offer"
               /\ detected_lang \in {"de", "en"}
               /\ stored_lang \in {"de", "en"}
               /\ detected_lang # stored_lang
               /\ user_cache.asked_language_switch = 0
               /\ user_cache'.user_language = user_cache.user_language
               /\ user_cache' =
                      [BeforeLanguageStage(user_cache, turn'.input, turn'.declared)
                          EXCEPT !.asked_language_switch = AskedSwitchTTL]]_vars

\* an offer was made to a user whose stored language differs from the
\* detected one
C10_Witness ==
    /\ HasEv("offer")
    /\ user_cache.asked_language_switch = AskedSwitchTTL
    /\ user_cache.user_language = "en"
    /\ turn.reply = <<Part("switch_offer", "de", None)>>

\* the request just served emitted a switch offer
OfferEmitted(t) == \E i \in DOMAIN t.events : t.events[i].ev = "offer"

\* C11: a request that emits a switch offer leaves the asked_language_switch
\* marker live for one hour, and while the marker is live no request emits
\* an offer, whatever the message, nor ends or renews the marker: only the
\* passing of the hour ends it.
C11_NoSecondOfferWithinHour ==
    [][ChatStep
        => /\ OfferEmitted(turn') => user_cache'.asked_language_switch = AskedSwitchTTL
           /\ user_cache.asked_language_switch > 0
                  => /\ ~OfferEmitted(turn')
                     /\ user_cache'.asked_language_switch
                            = user_cache.asked_language_switch]_vars

\* half an hour after an offer the detector was consulted on a further
\* message and no offer was made
C11_Witness ==
    /\ turns = 1
    /\ user_cache.asked_language_switch = AskedSwitchTTL - 1800
    /\ HasEv("detect")
    /\ ~OfferEmitted(turn)
    /\ AnswerKinds(turn.reply) = {"gpt"}

\* the text names a station of the directory and matches an FAQ trigger
StationAndFaq(m) == extract_station_name(m) # None /\ handle_faqs_improved(m) # None

\* the texts of the model that do
StationAndFaqTexts == {m \in PipelineTexts : StationAndFaq(m)}

\* C12: whenever the stages run on a text that names a known station and
\* matches an FAQ trigger, the transport stage answers it: the next step is
\* the transport reply for that station, it ends the reply, and no FAQ step
\* is taken in the request.
C12_TransportBeforeFaq ==
    \A i \in DOMAIN turn.events :
        (turn.events[i].ev = "resolve" /\ turn.events[i].text \in StationAndFaqTexts)
            => /\ i < Len(turn.events)
               /\ turn.events[i + 1].ev = "transport"
               /\ turn.events[i + 1].text = turn.events[i].text
               /\ ~turn.raised
               /\ turn.reply[Len(turn.reply)].kind = "transport"
               /\ turn.reply[Len(turn.reply)].text \in
                      {StationNames[k] : k \in 1..Len(StationNames)}
               /\ WholeWordIn(turn.reply[Len(turn.reply)].text,
                              lower(turn.events[i].text))
               /\ ~HasEv("faq")

\* the EUNOIA bot, which has the FAQ stage, answered such a message
C12_Witness ==
    /\ tenant = "eunoia"
    /\ turn.input \in StationAndFaqTexts
    /\ HasEv("resolve")
    /\ turn.reply = <<Part("transport", "de", StationNames[1])>>

\* the text contains, normalized, the name of a service of the catalog (own
\* and partner's) and a phrase of the explicit non-service list
ServiceAndNonService(m) ==
    /\ \E k \in 1..Len(combined_services(TRUE)) :
           Contains(clean_text(combined_services(TRUE)[k]), clean_text(m))
    /\ FirstContained(explicit_non_services, m) # None

ServiceAndNonServiceTexts == {m \in PipelineTexts : ServiceAndNonService(m)}

\* a stage before the explicit non-service stage answers the text: it names
\* a station, it matches an FAQ (EUNOIA bot), or a word of a service name is
\* more than 0.8 similar to the whole text, which is no exact match of a
\* service (whether or not the partner's catalog could be fetched)
EarlierStageAnswers(t, m) ==
    \/ extract_station_name(m) # None
    \/ t = "eunoia" /\ handle_faqs_improved(m) # None
    \/ \E ok \in BOOLEAN :
           /\ find_similar_services(m, combined_services(ok)) # <<>>
           /\ ~ExactService(combined_services(ok), clean_text(m))

EarlierStageTexts == [t \in Tenants |-> {m \in PipelineTexts : EarlierStageAnswers(t, m)}]

\* the reply ends with the apology for a service that is not offered
EndsWithApology(t) ==
    /\ ~t.raised
    /\ Len(t.reply) > 0
    /\ t.reply[Len(t.reply)].kind \in {"not_offered", "returning_clients_only"}

\* C13 (as claimed): whenever the stages run on a text that contains a
\* catalog service name and an explicit non-service phrase, the request is
\* answered with the non-service apology and no "did you mean" suggestion
\* is made.
C13_ApologyNeverSuggestion ==
    \A i \in DOMAIN turn.events :
        (turn.events[i].ev = "resolve" /\ turn.events[i].text \in ServiceAndNonServiceTexts)
            => EndsWithApology(turn) /\ ~HasEv("similar")

\* C13 (amended): whenever the stages run on such a text and no earlier
\* stage answers it (transport, FAQ, fuzzy suggestion), the next step is the
\* explicit non-service stage, the reply ends with the apology for the first
\* listed phrase contained, and no "did you mean" suggestion is made.
C13_ApologyUnlessEarlierStage ==
    \A i \in DOMAIN turn.events :
        (/\ turn.events[i].ev = "resolve"
         /\ turn.events[i].text \in ServiceAndNonServiceTexts
         /\ turn.events[i].text \notin EarlierStageTexts[tenant])
            => /\ i < Len(turn.events)
               /\ turn.events[i + 1].ev = "non_service"
               /\ EndsWithApology(turn)
               /\ turn.reply[Len(turn.reply)].text
                      = FirstContained(explicit_non_services, turn.events[i].text)
               /\ ~HasEv("similar")

\* a message naming a service and a non-service was answered with the apology
C13_Witness ==
    /\ turn.input \in ServiceAndNonServiceTexts
    /\ turn.input \notin EarlierStageTexts[tenant]
    /\ HasEv("non_service")
    /\ turn.reply = <<Part("not_offered", "en", explicit_non_services[1])>>

\* the steps of the transport, FAQ, fuzzy-suggestion and explicit
\* non-service stages
StaticSteps == {"transport", "faq", "similar", "non_service"}

\* the request  t  is answered by one of these stages: its own call (depth 0)
\* takes the step
AnsweredByStaticStage(t) ==
    \E i \in DOMAIN t.events : t.events[i].d = 0 /\ t.events[i].ev \in StaticSteps

\* C14: a request for a user with a stored name that is answered by the
\* transport, FAQ, fuzzy-suggestion or explicit non-service stage takes no
\* further step after that stage (no later stage, no nested call, no call of
\* the text backend), returns the stage's reply, and leaves chat history,
\* stored language, previous_message, last_offer and the switch-offer marker
\* as they were.
C14_FirstStageWins ==
    [][(ChatStep /\ user_cache.user_name # None /\ AnsweredByStaticStage(turn'))
        => /\ ~turn'.raised
           /\ Len(turn'.events) = 3
           /\ turn'.events[1].ev = "call"
           /\ turn'.events[2].ev = "resolve"
           /\ turn'.events[3].ev \in StaticSteps
           /\ AnswerKinds(turn'.reply) \subseteq
                  {"transport", "faq", "follow_up", "did_you_mean",
                   "not_offered", "returning_clients_only"}
           /\ user_cache'.chat_history = user_cache.chat_history
           /\ user_cache'.user_language = user_cache.user_language
           /\ user_cache'.previous_message = user_cache.previous_message
           /\ user_cache'.context_last_offer = user_cache.context_last_offer
           /\ user_cache'.asked_language_switch = user_cache.asked_language_switch]_vars

\* the FAQ stage answered a user whose session holds a history, a previous
\* message and an offer, and none of them changed
C14_Witness ==
    /\ turns = 1
    /\ HasEv("faq")
    /\ user_cache = OfferedSession
    /\ turn.reply[1] = Part("faq", "", FaqTriggers[1])

\* the offers of contact data
ContactOffers == {"waxbaby_contact_info", "eunoia_contact_info"}

\* the texts that stages 1-4 leave unanswered, whether or not the partner's
\* catalog could be fetched
UnansweredTexts ==
    [t \in Tenants |->
        {m \in PipelineTexts : \A ok \in BOOLEAN : StageTable[t][ok][m].stage = "none"}]

\* the message is one of the yes-equivalent tokens of lines 599 and 603
SaysYes(m) == InList(lower(m), YesTokensContact)

\* C15: when the session of a user with a stored name holds a contact-info
\* offer and the message is a yes-equivalent token that no earlier stage
\* answers, the reply is the contact data the offer was about, in the
\* request's language, and last_offer is cleared; and the same message sent
\* again at once is not answered by the continuation stage: a request that
\* the continuation stage answered leaves no offer, and a request that finds
\* no offer is not answered by that stage.
C15_YesTakesUpOfferOnce ==
    [][ChatStep
        => /\ (/\ user_cache.user_name # None
               /\ user_cache.context_last_offer \in ContactOffers
               /\ SaysYes(turn'.input)
               /\ turn'.input \in UnansweredTexts[tenant])
                  => /\ turn'.reply =
                            <<Part(user_cache.context_last_offer,
                                   Loc(ActiveLanguage(user_cache, turn'.declared, "")),
                                   None)>>
                     /\ ~turn'.raised
                     /\ \E i \in DOMAIN turn'.events : turn'.events[i].ev = "continuation"
                     /\ user_cache' = [user_cache EXCEPT !.context_last_offer = ""]
           /\ (\E i \in DOMAIN turn'.events : turn'.events[i].ev = "continuation")
                  => user_cache'.context_last_offer = ""
           /\ user_cache.context_last_offer = ""
                  => \A i \in DOMAIN turn'.events : turn'.events[i].ev # "continuation"]_vars

\* the EUNOIA bot referred the user to its partner, the user said yes and
\* got the partner's contact data
C15_Witness ==
    /\ tenant = "eunoia"
    /\ turns = 1
    /\ SaysYes(turn.input)
    /\ HasEv("continuation")
    /\ turn.reply[1].kind = "waxbaby_contact_info"
    /\ user_cache.context_last_offer = ""

\* the last MEMORY_LIMIT entries of a history
Recent(h) == IF Len(h) > MEMORY_LIMIT THEN SubSeq(h, Len(h) - MEMORY_LIMIT + 1, Len(h)) ELSE h

\* C16: in a request that reaches the generative fallback the message is
\* appended to the stored history and then the backend is called: the
\* append step comes right before the call, the list handed to the backend
\* is the history as it was before the append followed by the message once,
\* and the stored history afterwards is the appended one and ends with the
\* message, whether the backend answers or fails.
C16_AppendBeforeBackend ==
    [][ChatStep
        => \A i \in DOMAIN turn'.events :
               turn'.events[i].ev = "gpt_call"
                   => /\ i > 1
                      /\ turn'.events[i - 1].ev = "append"
                      /\ turn'.events[i - 1].text = turn'.events[i].text
                      /\ turn'.events[i - 1].hist
                             = Recent(Append(user_cache.chat_history, turn'.events[i].text))
                      /\ turn'.events[i].hist
                             = Append(user_cache.chat_history, turn'.events[i].text)
                      /\ user_cache'.chat_history = turn'.events[i - 1].hist
                      /\ user_cache'.chat_history[Len(user_cache'.chat_history)]
                             = turn'.events[i].text
                      /\ ~turn'.raised]_vars

\* the backend failed on a message sent by a user with a full history: the
\* reply is the apology and the history ends with the message
C16_Witness ==
    /\ turns = 1
    /\ HasEv("gpt_call")
    /\ turn.reply = <<Part("apology", "en", None)>>
    /\ user_cache.chat_history = <<Prices, Tom, Prices, Tom, Prices>>
    /\ turn.input = Prices

\* the messages a request appended to the history, in the order of the steps
RECURSIVE AppendedTexts(_)
AppendedTexts(events) ==
    IF events = <<>> THEN <<>>
    ELSE (IF Head(events).ev = "append" THEN <<Head(events).text>> ELSE <<>>)
             \o AppendedTexts(Tail(events))

\* C17: after every request the stored chat history holds at most
\* MEMORY_LIMIT entries: the history before the request followed by the
\* messages the request appended, in that order, cut to its last
\* MEMORY_LIMIT entries (the oldest go first); and it holds no more than
\* MEMORY_LIMIT entries whenever no request is in flight.
C17_HistoryBoundedFifo ==
    /\ [][ChatStep
            => /\ Len(user_cache'.chat_history) <= MEMORY_LIMIT
               /\ user_cache'.chat_history
                      = Recent(user_cache.chat_history \o AppendedTexts(turn'.events))]_vars
    /\ [](NobodyInFlight => Len(user_cache.chat_history) <= MEMORY_LIMIT)

\* a message was appended to a full history: the oldest entry is gone and
\* the message is the newest
C17_Witness ==
    /\ turns = 1
    /\ AppendedTexts(turn.events) = <<Prices>>
    /\ Len(user_cache.chat_history) = MEMORY_LIMIT
    /\ user_cache.chat_history = SubSeq(FullSession.chat_history, 2, MEMORY_LIMIT) \o <<Prices>>

\* the text backend was called while the request was served
BackendCalled(events) ==
    \E i \in DOMAIN events : events[i].ev \in {"gpt_call", "redirect"}

\* the outcome  r  of a request during which the backend failed: where the
\* backend was called the request returns a reply, which ends with the fixed
\* text that stands in for the backend's answer
BackendFailureDegrades(r) ==
    BackendCalled(r.events)
        => /\ ~r.raised
           /\ r.reply # <<>>
           /\ r.reply[Len(r.reply)].kind \in {"apology", "referral_fallback"}

\* the outcomes of one request with the partner API down and up: the request
\* with the API down returns a reply unless the same request fails with the
\* API up as well
PartnerFailureDegrades(down, up) ==
    /\ down.raised => up.raised
    /\ ~down.raised => down.reply # <<>>

\* C18: for every session with no request in flight (the session that two
\* overlapping requests leave included) and every request that is then
\* served on it:
\* a failure of the text backend, at the redirect referral or at the
\* generative fallback, does not fail the request, whose reply then ends
\* with the fixed fallback text; and a failed fetch of the partner data does
\* not fail the request either.
C18_FailuresDegrade ==
    NobodyInFlight
        => \A message \in Messages, declared \in DeclaredLanguages,
              detected \in DetectorOutcomes :
               /\ \A partner_ok \in PartnerOutcomes :
                      BackendFailureDegrades(
                          Serve(user_cache, message, declared, detected, "fail", partner_ok))
               /\ \A gpt \in BackendOutcomes :
                      PartnerFailureDegrades(
                          Serve(user_cache, message, declared, detected, gpt, FALSE),
                          Serve(user_cache, message, declared, detected, gpt, TRUE))

\* the backend failed at the redirect referral and the fixed referral text
\* was returned
C18_Witness ==
    /\ HasEv("redirect")
    /\ ~turn.raised
    /\ turn.reply = <<Part("referral_fallback", "de", redirect_non_services[1])>>
    /\ user_cache.context_last_offer = RedirectOffer(tenant)

\* the requests are served one at a time: at most one of them step by
\* step, every other in one step while no request is in flight, so that no
\* request reads the store before another that is answered by then wrote it
OneAtATime ==
    Cardinality({r \in Requests : ~At(r, "idle")}) <= 1

\* C19: once a display name is stored, no request that is served alone (no
\* store operation of another request of the user between its first read
\* and its reply), in one step or step by step, and no passing of time
\* changes or deletes it.
C19_NameSetOnce ==
    [][(OneAtATime /\ OneAtATime' /\ user_cache.user_name # None)
        => user_cache'.user_name = user_cache.user_name]_vars

\* a user stored under the name Tom sent a further name-like message that
\* went through the pipeline, and the name is still Tom
C19_Witness ==
    /\ turns = 1
    /\ IsNameLike(turn.input)
    /\ turn.input # Tom
    /\ ~HasEv("name_capture")
    /\ HasEv("resolve")
    /\ user_cache.user_name = Tom

\* the explicit-switch steps of a request, as the languages they asked for
SwitchedTo(t) ==
    {switch_language(t.events[i].text) :
         i \in {j \in DOMAIN t.events : t.events[j].ev = "switch"}}

\* C20: the stored preferred language changes only in a request whose
\* explicit-switch step ran (for a request served step by step: in that
\* very step), and then to the language that step asked for; a request
\* without that step (name prompt, name capture, any declared language, a
\* mismatch offer, any other stage) and the passing of time leave it as it
\* was, and a stored language is never removed.
C20_LanguageWrittenOnlyBySwitch ==
    [][/\ user_cache'.user_language # user_cache.user_language
           => \/ /\ ChatStep
                 /\ SwitchedTo(turn') = {user_cache'.user_language}
              \/ \E r \in Requests :
                    /\ At(r, "previous")
                    /\ inflight'[r].pc = "get_previous"
                    /\ user_cache'.user_language
                           = switch_language(inflight[r].user_input)
       /\ user_cache.user_language # ""
           => user_cache'.user_language \in {"de", "en"}]_vars

\* a user whose stored language is English sent a request declared German
\* that was detected as German and offered the switch: the stored language
\* is still English
C20_Witness ==
    /\ turns = 1
    /\ turn.declared = "de"
    /\ SwitchedTo(turn) = {}
    /\ HasEv("detect")
    /\ turn.reply[1].kind = "switch_offer"
    /\ user_cache.user_name # None
    /\ user_cache.user_language = "en"

\* C21: a message that is empty after stripping is answered by the generic
\* prompt alone, by the request's own call and before any other step, in
\* every session state, and the session is left as it was; a request served
\* step by step is answered so in the step that receives it.
C21_BlankShortCircuits ==
    /\ [][(ChatStep /\ strip(turn'.input) = <<>>)
            => /\ turn'.reply = <<Part("anything_else", "en", None)>>
               /\ turn'.events = <<Ev("call", 0, turn'.input)>>
               /\ ~turn'.raised
               /\ user_cache' = user_cache]_vars
    /\ [][\A r \in Requests :
              (At(r, "idle") /\ ~At(r, "idle")' /\ strip(inflight'[r].user_input) = <<>>)
                  => /\ inflight'[r].pc = "done"
                     /\ inflight'[r].reply = <<Part("anything_else", "en", None)>>
                     /\ user_cache' = user_cache]_vars

\* a blank message was sent while the name was awaited: the question is
\* still open and the first message is still buffered
C21_Witness ==
    /\ turns = 1
    /\ strip(turn.input) = <<>>
    /\ turn.reply = <<Part("anything_else", "en", None)>>
    /\ user_cache.user_name = None
    /\ user_cache.asked_for_name
    /\ user_cache.pending_message = Prices

\* the buffered messages a request replayed
Replayed(t) ==
    {t.events[i].text :
         i \in {j \in DOMAIN t.events : t.events[j].ev \in {"replay_pending", "deferred_resume"}}}

\* C22: a request that reads pending_message (the name step, or the resume
\* step behind the language stage) ends with no pending_message stored,
\* whether it replies or fails; what it replays is the one message that was
\* stored, and the request after a replaying request replays nothing.
C22_PendingReadThenDeleted ==
    [][ChatStep
        => /\ (\E i \in DOMAIN turn'.events :
                  turn'.events[i].ev \in {"name_capture", "replay_pending", "deferred_resume"})
               => user_cache'.pending_message = None
           /\ Replayed(turn') \subseteq {user_cache.pending_message} \ {None}
           /\ Replayed(turn) # {} => Replayed(turn') = {}]_vars

\* the request before replayed the buffered message Prices; this one went
\* through the pipeline with nothing to replay
C22_Witness ==
    /\ turns = 2
    /\ user_cache.user_name # None
    /\ user_cache.pending_message = None
    /\ HasEv("resolve")
    /\ Replayed(turn) = {}
    /\ Count(Prices, user_cache.chat_history) = 1
    /\ Len(user_cache.chat_history) = 2

\* request r is served and read the pending message m on its way
ServedWith(r, m) == inflight[r].pc = "done" /\ inflight[r].took = <<m>>

\* C23: when two requests in flight have both read a pending message, they
\* read the same one (neither had deleted it yet), each ran it through the
\* stages, and where both reached the append of the fallback the chat
\* history holds it twice.
C23_DoubleReadResolvesTwice ==
    \A r, q \in Requests :
        (/\ r # q
         /\ inflight[r].pc = "done" /\ inflight[q].pc = "done"
         /\ inflight[r].took # <<>> /\ inflight[q].took # <<>>)
        => \E m \in OverlappingMessages :
              /\ ServedWith(r, m) /\ ServedWith(q, m)
              /\ m \in {inflight[r].resolved[i] : i \in DOMAIN inflight[r].resolved}
              /\ m \in {inflight[q].resolved[i] : i \in DOMAIN inflight[q].resolved}
              /\ (inflight[r].pushed = <<m>> /\ inflight[q].pushed = <<m>>)
                     => Count(m, user_cache.chat_history) = 2

\* both requests, sent while the name was awaited, read the buffered
\* message Prices, both answered it through the text backend, and the chat
\* history holds it twice
C23_Witness ==
    /\ ServedWith(1, Prices) /\ ServedWith(2, Prices)
    /\ inflight[1].reply[Len(inflight[1].reply)] = Part("gpt", "de", Prices)
    /\ inflight[2].reply[Len(inflight[2].reply)] = Part("gpt", "de", Prices)
    /\ user_cache.chat_history = <<Prices, Prices>>
    /\ user_cache.pending_message = None

\* the texts the request's own call ran through the stages
ResolvedAtTop(t) ==
    {t.events[i].text :
         i \in {j \in DOMAIN t.events : t.events[j].ev = "resolve" /\ t.events[j].d = 0}}

\* C24: a non-blank message sent while the name is awaited leaves a name
\* stored, the asked_for_name flag cleared and no pending_message, whether
\* the request replies or fails; where a message was buffered, the stages
\* run on the buffered text and on no other, and skip_intro ends with its
\* full TTL of 24 hours.
C24_NameTurnOutcome ==
    [][(/\ ChatStep
        /\ AwaitingName(user_cache)
        /\ ~IsBlank(TextTable[turn'.input].strip))
        => /\ user_cache'.user_name # None
           /\ ~user_cache'.asked_for_name
           /\ user_cache'.pending_message = None
           /\ user_cache.pending_message # None
                  => /\ ResolvedAtTop(turn') = {user_cache.pending_message}
                     /\ user_cache'.skip_intro = SkipIntroTTL]_vars

\* the name Tom was given while Prices was buffered: Prices went through
\* the stages, Tom did not, and skip_intro is armed
C24_Witness ==
    /\ HasEv("name_capture")
    /\ turn.input = Tom
    /\ ResolvedAtTop(turn) = {Prices}
    /\ user_cache.user_name = Tom
    /\ ~user_cache.asked_for_name
    /\ user_cache.pending_message = None
    /\ user_cache.skip_intro = SkipIntroTTL

\* C25: in the request that supplies the name, whenever the buffered
\* message is answered (by a stage or by the text backend, the backend not
\* failing) the reply starts with the introduction that greets the user by
\* the new name, and the answer follows it.
C25_IntroBeforeResolution ==
    (HasEv("replay_pending") /\ ~turn.raised /\ AnswerKinds(turn.reply) \ {"apology"} # {})
    => /\ Len(turn.reply) >= 2
       /\ turn.reply[1] = Part("intro", turn.reply[1].lang, user_cache.user_name)

\* the steps that interrupt the resolution of a message
InterruptingSteps ==
    {"detect", "offer", "switch", "replay_pending", "deferred_resume",
     "name_prompt", "name_capture"}

\* C26: in a nested call the detector is not consulted, no switch offer is
\* emitted, no explicit switch is carried out, no pending_message is taken
\* over and neither the name prompt nor the name capture runs.
C26_NestedUninterrupted ==
    \A i \in DOMAIN turn.events :
        turn.events[i].d >= 1 => turn.events[i].ev \notin InterruptingSteps

\* after a switch to English the nested call answered the earlier message
\* Prices through the text backend, a text long enough for the detector
C26_Witness ==
    /\ ~turn.raised
    /\ \E i \in DOMAIN turn.events :
           turn.events[i] = Ev("resolve", 1, Prices)
    /\ \E i \in DOMAIN turn.events :
           turn.events[i].ev = "gpt_call" /\ turn.events[i].d = 1
    /\ turn.reply = <<Part("switch_confirm", "en", None), Part("blank", "", None),
                      Part("gpt", "en", Prices)>>
    /\ user_cache.user_language = "en"

\* C27: after a request of a user with a stored name whose message is not
\* blank, is none of yes/ja/no/nein and holds no switch trigger,
\* previous_message is that message.
C27_PreviousIsMostRecent ==
    [][(/\ ChatStep
        /\ user_cache.user_name # None
        /\ ~turn'.raised
        /\ ~IsBlank(TextTable[turn'.input].strip)
        /\ ~InList(TextTable[turn'.input].strip_lower, YesNoTokens)
        /\ TextTable[turn'.input].switch = "")
        => user_cache'.previous_message = turn'.input]_vars

\* C28: when a request was answered by the switch offer and the next request
\* is the switch trigger phrase and carries out the switch without failing,
\* the text that the switch resumes is the message the offer interrupted,
\* and the request answers it.
C28_OfferedMessageResumed ==
    [][(/\ ChatStep
        /\ OfferEmitted(turn)
        /\ ExactTrigger(turn'.input)
        /\ SwitchedTo(turn') # {}
        /\ ~turn'.raised)
        => /\ AnswerKinds(turn'.reply) # {}
           /\ \E i \in DOMAIN turn.events, j \in DOMAIN turn'.events :
                  /\ turn.events[i].ev = "offer"
                  /\ turn'.events[j].ev = "previous"
                  /\ turn'.events[j].text = turn.events[i].text]_vars

\* C29: a request with a non-blank message, made while a name and a
\* pending_message are stored, and not failing, deletes the pending message,
\* arms skip_intro with its full TTL, and replies with the introduction
\* followed by what a nested call answers to the buffered text.
C29_PendingResumedOnAnyTurn ==
    [][(/\ ChatStep
        /\ user_cache.user_name # None
        /\ user_cache.pending_message # None
        /\ ~IsBlank(TextTable[turn'.input].strip)
        /\ ~turn'.raised)
        => /\ user_cache'.pending_message = None
           /\ user_cache'.skip_intro = SkipIntroTTL
           /\ Len(turn'.reply) >= 2
           /\ turn'.reply[1] = Part("intro", turn'.reply[1].lang, user_cache.user_name)
           /\ \E i \in DOMAIN turn'.events :
                  turn'.events[i] = Ev("resolve", 1, user_cache.pending_message)]_vars

\* C30: the detector is consulted, and a switch offer emitted, only for a
\* text of more than 5 tokens (whitespace-separated words).
C30_DetectorOnlyAboveFiveTokens ==
    \A i \in DOMAIN turn.events :
        turn.events[i].ev \in {"detect", "offer"}
            => Len(split(turn.events[i].text)) > MinDetectLen

\* the messages that the redirect stage answers, whether or not the
\* partner's catalog could be fetched
RedirectTexts ==
    [t \in Tenants |->
        {m \in Messages : \A ok \in BOOLEAN : StageTable[t][ok][m].stage = "redirect"}]

Yes == <<"y", "e", "s">>

\* the outcome  r  of a request whose message names the redirect service
\* svc , served in the language  lang  with the backend answering  gpt
ReferralRecorded(r, svc, lang, gpt) ==
    /\ ~r.raised
    /\ r.cache.context_last_offer = RedirectOffer(tenant)
    /\ r.reply = <<IF gpt = "fail" THEN Part("referral_fallback", Loc(lang), svc)
                   ELSE Part("referral", lang, svc)>>

\* C31: for every session of a user with a stored name and every message
\* that names a redirect non-service and that no earlier stage answers: the
\* request, served alone, records the partner contact-info offer as
\* last_offer and replies with the referral, generated by the backend or,
\* when the backend fails, the fixed text in the request's language; and in
\* either case a yes sent next is answered with the partner's contact info
\* and clears the offer.
C31_RedirectRecordsOffer ==
    (NobodyInFlight /\ user_cache.user_name # None)
        => \A message \in RedirectTexts[tenant], declared \in DeclaredLanguages,
              detected \in DetectorOutcomes, gpt \in BackendOutcomes,
              partner_ok \in PartnerOutcomes :
               LET r == Serve(user_cache, message, declared, detected, gpt, partner_ok)
               IN  /\ ReferralRecorded(r, StageTable[tenant][partner_ok][message].arg,
                                       ActiveLanguage(user_cache, declared, ""), gpt)
                   /\ \A again \in DeclaredLanguages :
                          LET y == Serve(r.cache, Yes, again, detected, gpt, partner_ok)
                          IN  /\ ~y.raised
                              /\ y.reply = <<Part(RedirectOffer(tenant),
                                                  Loc(ActiveLanguage(r.cache, again, "")),
                                                  None)>>
                              /\ y.cache.context_last_offer = ""

\* the backend of the WAX! Baby bot failed at the referral: the fixed English
\* text was returned and the offer of EUNOIA's contact info is recorded
C31_Witness ==
    /\ tenant = "waxbaby"
    /\ turns = 1
    /\ turn.input \in RedirectTexts[tenant]
    /\ turn.reply = <<Part("referral_fallback", "en", redirect_non_services[1])>>
    /\ user_cache.context_last_offer = "eunoia_contact_info"
    /\ user_cache.user_name # None

\* the generic honorific of a language
Honorific(language) == IF language = "de" THEN LieberGast ELSE DearGuest

\* the step is a request whose message is taken as the answer to the name
\* prompt
NameStep ==
    /\ ChatStep
    /\ user_cache.user_name = None
    /\ user_cache.asked_for_name
    /\ strip(turn'.input) # <<>>

\* the text is one word or two words, of letters only
LettersOnly(text) ==
    LET words == split(text)
    IN  /\ Len(words) \in {1, 2}
        /\ \A i \in DOMAIN words : AllIn(words[i], NameChars)

\* the text is one word, or two words with one blank between them, each of
\* two or more letters
TwoLetterWords(text) ==
    LET words == split(text)
    IN  /\ Len(words) \in {1, 2}
        /\ \A i \in DOMAIN words : Len(words[i]) >= MinNameWord /\ AllIn(words[i], NameChars)
        /\ Len(words) = 2 => text = words[1] \o <<" ">> \o words[2]

\* C32 (as claimed): the name stored from a name reply is the capitalized
\* first word when the reply is one or two words of letters only, and
\* otherwise the generic honorific of the request's active language.
C32_NameFromLettersOnly ==
    [][NameStep
        => user_cache'.user_name =
               IF LettersOnly(strip(turn'.input))
               THEN capitalize(split(turn'.input)[1])
               ELSE Honorific(ActiveLanguage(user_cache, turn'.declared, ""))]_vars

\* C32 (amended): the name stored from a name reply is the capitalized first
\* word when the reply, stripped, is one word or two words separated by one
\* blank, each of two or more letters, and otherwise the generic honorific
\* of the request's active language ("Lieber Gast" for de, "Dear Guest"
\* otherwise).
C32_NameFromPattern ==
    [][NameStep
        => user_cache'.user_name =
               IF TwoLetterWords(strip(turn'.input))
               THEN capitalize(split(turn'.input)[1])
               ELSE Honorific(ActiveLanguage(user_cache, turn'.declared, ""))]_vars

\* the one-letter reply "A" of a user writing English was stored as the
\* honorific "Dear Guest"
C32_Witness ==
    /\ turn.input = <<"A">>
    /\ turn.declared = "en"
    /\ HasEv("name_capture")
    /\ user_cache.user_name = DearGuest

\* the request of Serve as the bot of tenant  t  serves it
ServeAs(t, cache, message, declared, detected, gpt, partner_ok) ==
    generate_dynamic_response(cache, message, declared, "", FALSE, FALSE,
        [tenant |-> t, legacy |-> re_legacy,
         stages |-> StageTable[t][partner_ok], texts |-> TextTable,
         env |-> [detected |-> detected, gpt |-> gpt, partner_ok |-> partner_ok]],
        0)

\* an offer, but for the name of the business whose contact info is offered
OfferClass(offer) == IF offer \in ContactOffers THEN "contact_info" ELSE offer

\* the steps of a request, in order
StepsOf(r) == [i \in DOMAIN r.events |-> r.events[i].ev]

\* two outcomes of a request differ in the names of the offers at most: the
\* same steps in the same order, the same session written
SameButNames(a, b) ==
    /\ StepsOf(a) = StepsOf(b)
    /\ a.raised = b.raised
    /\ [a.cache EXCEPT !.context_last_offer = OfferClass(@)]
           = [b.cache EXCEPT !.context_last_offer = OfferClass(@)]

\* C33: on every session (one that holds no offer of WAX! Baby's contact
\* info, which only the EUNOIA bot records) and for every message, declared
\* language and answer of the detector, the backend and the partner API, the
\* EUNOIA bot and the WAX! Baby bot take the same steps in the same order
\* and write the same session, but for the names of the offers.
C33_SameEngine ==
    (NobodyInFlight /\ user_cache.context_last_offer # "waxbaby_contact_info")
        => \A message \in Messages, declared \in DeclaredLanguages,
              detected \in DetectorOutcomes, gpt \in BackendOutcomes,
              partner_ok \in PartnerOutcomes :
               SameButNames(
                   ServeAs("eunoia", user_cache, message, declared, detected, gpt, partner_ok),
                   ServeAs("waxbaby", user_cache, message, declared, detected, gpt, partner_ok))

\* the shape of a session: NEW (1), AWAITING_NAME (2), ACTIVE (3), or none
\* of the three (0)
Shape(cache) ==
    IF cache.user_name = None /\ ~cache.asked_for_name /\ cache.pending_message = None
    THEN 1
    ELSE IF cache.user_name = None /\ cache.asked_for_name /\ cache.pending_message # None
    THEN 2
    ELSE IF cache.user_name # None /\ ~cache.asked_for_name /\ cache.pending_message = None
    THEN 3
    ELSE 0

\* the requests so far were served one after the other, and none is in
\* flight: at most one request was served step by step
OneByOne ==
    /\ NobodyInFlight
    /\ Cardinality({r \in Requests : ~At(r, "idle")}) <= 1

\* C34: where requests are served one after the other, the session is,
\* after each request, in one of the shapes NEW, AWAITING_NAME and ACTIVE,
\* and every request and every passing of time leaves the shape as it is or
\* moves it one shape on, NEW to AWAITING_NAME or AWAITING_NAME to ACTIVE.
C34_ShapesOnlyForward ==
    /\ [](OneByOne => Shape(user_cache) \in {1, 2, 3})
    /\ [][(OneByOne /\ OneByOne')
            => Shape(user_cache') \in {Shape(user_cache), Shape(user_cache) + 1}]_vars

\* a new user was asked for the name and the second request stored it: the
\* session went from NEW over AWAITING_NAME to ACTIVE
C34_Witness ==
    /\ turns = 2
    /\ HasEv("name_capture")
    /\ HasEv("replay_pending")
    /\ Shape(user_cache) = 3

\* the step  i  of  events  appends the text that the stages were last run
\* on, and the backend is called on that text next
AppendsResolvedText(events, i) ==
    /\ \E j \in 1..(i - 1) :
          /\ events[j].ev = "resolve"
          /\ events[j].text = events[i].text
          /\ \A n \in (j + 1)..(i - 1) : events[n].ev # "resolve"
    /\ i < Len(events)
    /\ events[i + 1].ev = "gpt_call"
    /\ events[i + 1].text = events[i].text

\* C35: a request appends at most one entry to the chat history, however
\* many calls of the pipeline it makes: none when it does not reach the
\* generative fallback, and one when it does, which is the text the stages
\* were last run on and the backend is called with (the buffered or resumed
\* text where one was replayed), and the stored history grows by just that
\* entry; a request served step by step, overlapping another, appends no
\* more than one entry either.
C35_OneAppendPerRequest ==
    /\ [][ChatStep
            => LET appended == AppendedTexts(turn'.events)
               IN  /\ Len(appended) <= 1
                   /\ Len(appended) = 1
                      <=> (\E i \in DOMAIN turn'.events : turn'.events[i].ev = "gpt_call")
                   /\ \A i \in DOMAIN turn'.events :
                          turn'.events[i].ev = "append" => AppendsResolvedText(turn'.events, i)
                   /\ user_cache'.chat_history = Recent(user_cache.chat_history \o appended)
                   /\ Len(user_cache'.chat_history) <= Len(user_cache.chat_history) + 1]_vars
    /\ [](\A r \in Requests : Len(inflight[r].pushed) <= 1)

\* the request "speak english" switched the language and went on with the
\* previous message, which is what it appended to the history
C35_Witness ==
    /\ turn.input = SpeakEnglish
    /\ HasEv("previous")
    /\ AppendedTexts(turn.events) = <<Prices>>
    /\ user_cache.chat_history = <<Prices, Prices>>

Hauptbahnhof == <<"H", "a", "u", "p", "t", "b", "a", "h", "n", "h", "o", "f">>

\* C36: when a user who was asked for the name and whose first message is
\* buffered sends a reply other than that message, the reply is what the
\* stored name is derived from and nothing else: no stage is run on it, the
\* detector and the backend are not called on it, it is not stored as
\* previous_message and it is not appended to the chat history.
C36_NameReplyOnlyNames ==
    [][(NameStep /\ user_cache.pending_message # None
                 /\ turn'.input # user_cache.pending_message)
        => /\ user_cache'.user_name =
                  ExtractName(turn'.input, ActiveLanguage(user_cache, turn'.declared, ""))
           /\ \A i \in DOMAIN turn'.events :
                  turn'.events[i].text = turn'.input
                      => turn'.events[i].ev \in {"call", "name_capture"}
           /\ user_cache'.previous_message # turn'.input
           /\ Count(turn'.input, user_cache'.chat_history)
                  <= Count(turn'.input, user_cache.chat_history)]_vars

\* the user answered the name prompt with "hauptbahnhof": it became the
\* name, no directions were given, and the buffered question was answered
C36_Witness ==
    /\ turn.input = StationNames[1]
    /\ HasEv("name_capture")
    /\ ~HasEv("transport")
    /\ user_cache.user_name = Hauptbahnhof
    /\ user_cache.previous_message = Prices
    /\ user_cache.chat_history = <<Prices>>

\* the kinds of reply part that are worded in German or in English
LocalizedKinds ==
    {"transport", "follow_up", "did_you_mean", "returning_clients_only", "referral",
     "referral_fallback", "intro", "gpt"} \cup ContactOffers

\* the request switched the language
Switched(t) == \E i \in DOMAIN t.events : t.events[i].ev = "switch"

\* C37: every localized part of the reply of a request that does not switch
\* the language is in the request's active language: the stored preference,
\* else the declared language, else de; the directions of the transport stage
\* among them.
C37_OneLanguagePerTurn ==
    [][(ChatStep /\ ~Switched(turn'))
        => \A i \in DOMAIN turn'.reply :
               turn'.reply[i].kind \in LocalizedKinds
                   => turn'.reply[i].lang
                          = Loc(ActiveLanguage(user_cache, turn'.declared, ""))]_vars

\* the request  t  took up the recorded offer with a yes-equivalent text
TookUpOffer(t) ==
    \E i \in DOMAIN t.events :
        /\ t.events[i].ev = "continuation"
        /\ InList(lower(t.events[i].text), YesTokensSuggestions \o YesTokensContact)

\* the request  t  recorded an offer: at the redirect referral or after the
\* backend's answer
RecordedOffer(t) ==
    \E i \in DOMAIN t.events : t.events[i].ev \in {"redirect", "gpt_call"}

\* a request served step by step takes the step  pc
StepFrom(pc) ==
    \E r \in Requests : At(r, pc) /\ inflight'[r].pc # pc

\* C38: a recorded last_offer stays as it is over every step, a request or
\* the passing of time, unless the request takes it up with a
\* yes-equivalent text, which removes it, or records an offer itself (for a
\* request served step by step: the step that deletes the offer taken up,
\* the step that records one); and in every session of a named user that
\* holds a contact-info offer, however it was reached, a yes is answered
\* with the contact info offered.
C38_OfferSurvivesUntilYes ==
    /\ [][user_cache.context_last_offer # ""
            => \/ user_cache'.context_last_offer = user_cache.context_last_offer
               \/ /\ ChatStep
                  /\ TookUpOffer(turn')
                  /\ user_cache'.context_last_offer = ""
               \/ /\ ChatStep
                  /\ RecordedOffer(turn')
                  /\ user_cache'.context_last_offer \in ContactOffers
               \/ /\ StepFrom("delete_offer")
                  /\ user_cache'.context_last_offer = ""
               \/ /\ StepFrom("set_redirect_offer") \/ StepFrom("set_offer")
                  /\ user_cache'.context_last_offer \in ContactOffers]_vars
    /\ []((/\ NobodyInFlight
           /\ user_cache.user_name # None
           /\ user_cache.context_last_offer \in ContactOffers)
            => \A declared \in DeclaredLanguages, detected \in DetectorOutcomes,
                  gpt \in BackendOutcomes, partner_ok \in PartnerOutcomes :
                   LET y == Serve(user_cache, Yes, declared, detected, gpt, partner_ok)
                   IN  /\ ~y.raised
                       /\ y.reply = <<Part(user_cache.context_last_offer,
                                           Loc(ActiveLanguage(user_cache, declared, "")),
                                           None)>>)

\* an offer of EUNOIA's contact info was recorded before the first of two
\* requests; the first request was answered without the backend and left
\* the offer alone, the second said yes and got the contact info
C38_Witness ==
    /\ turns = 2
    /\ turn.input = Yes
    /\ HasEv("continuation")
    /\ turn.reply[1].kind = "eunoia_contact_info"
    /\ user_cache = [OfferedSession EXCEPT !.context_last_offer = ""]

\* the request  r  was answered with the name prompt
Prompted(r) == inflight[r].pc = "done" /\ inflight[r].reply = NamePrompt

\* the requests answered with the name prompt
AllPrompted == {r \in Requests : Prompted(r)}

\* the text  m  is kept somewhere in the session
Kept(m, cache) ==
    \/ m \in {cache.pending_message, cache.previous_message}
    \/ \E i \in DOMAIN cache.chat_history : cache.chat_history[i] = m

\* C39: of two requests of one user in flight together, each that writes
\* pending_message after passing the check for name and flag overwrites what
\* is buffered with its own message and is answered with the name prompt;
\* and once both have been answered with the name prompt, one message is
\* buffered, the flag is set, no stage was run on either message, and where
\* the two messages differ the one not buffered is kept nowhere in the
\* session.
C39_BothPromptedOneKept ==
    /\ [][\A r \in Requests :
              (inflight[r].pc = "set_pending" /\ inflight'[r].pc = "done")
                  => /\ user_cache'.pending_message = inflight[r].user_input
                     /\ inflight'[r].reply = NamePrompt]_vars
    /\ []((/\ Cardinality(AllPrompted) >= 2
           /\ \A r \in Requests : At(r, "idle") \/ Prompted(r))
            => /\ user_cache.asked_for_name
               /\ user_cache.user_name = None
               /\ \E r \in AllPrompted :
                      /\ user_cache.pending_message = inflight[r].user_input
                      /\ \A q \in AllPrompted :
                             /\ inflight[q].resolved = <<>>
                             /\ inflight[q].pushed = <<>>
                             /\ inflight[q].user_input # inflight[r].user_input
                                    => ~Kept(inflight[q].user_input, user_cache))

\* a new user sent "Tom" and the question about prices at the same time:
\* both were answered with the name prompt and only "Tom" is buffered
C39_Witness ==
    /\ Prompted(1)
    /\ Prompted(2)
    /\ inflight[1].user_input = Prices
    /\ inflight[2].user_input = Tom
    /\ user_cache.pending_message = Tom
    /\ ~Kept(Prices, user_cache)

\* a name is stored and a message is still buffered
NamedWithPending(cache) == cache.user_name # None /\ cache.pending_message # None

\* the request  t  reached the deferred-resume stage
Resumed(t) == \E i \in DOMAIN t.events : t.events[i].ev = "deferred_resume"

\* C40: where two requests of one user are served with their store
\* operations interleaved, a session that holds a name and a buffered message
\* once both are answered comes from one request that passed the check for
\* name and flag and buffered its message, and another that stored the
\* name; and a request served later on such a session that reaches the
\* deferred-resume stage is answered with the introduction followed by the
\* answer to the buffered message: the stages, the append to the history
\* and the backend run on the buffered message, which also ends up as
\* previous_message, and the buffer is emptied.
C40_StalePendingReplacesTurn ==
    /\ []((/\ NamedWithPending(user_cache)
           /\ Cardinality({r \in Requests : At(r, "done")}) >= 2
           /\ \A r \in Requests : At(r, "idle") \/ At(r, "done"))
            => \E r, q \in Requests :
                  /\ r # q
                  /\ Prompted(r)
                  /\ inflight[r].user_input = user_cache.pending_message
                  /\ inflight[q].user_name = user_cache.user_name)
    /\ [][(ChatStep /\ NamedWithPending(user_cache) /\ Resumed(turn'))
            => /\ turn'.reply[1] = Part("intro",
                                        Loc(ActiveLanguage(user_cache, turn'.declared, "")),
                                        user_cache.user_name)
               /\ \A i \in DOMAIN turn'.reply :
                      turn'.reply[i].kind = "gpt"
                          => turn'.reply[i].text = user_cache.pending_message
               /\ \A i \in DOMAIN turn'.events :
                      turn'.events[i].ev \in {"deferred_resume", "append", "gpt_call"}
                          => turn'.events[i].text = user_cache.pending_message
               /\ AppendedTexts(turn'.events) = <<user_cache.pending_message>>
               /\ user_cache'.previous_message = user_cache.pending_message
               /\ user_cache'.pending_message = None]_vars

\* two requests overlapped: the question about prices was buffered after
\* "Tom" had been stored as the name and answered by the backend; the user
\* then sent "Tom" once more and was answered about prices
C40_Witness ==
    /\ turns = 1
    /\ At(1, "gone") /\ At(2, "gone")
    /\ Resumed(turn)
    /\ turn.input = Tom
    /\ user_cache.user_name = Tom
    /\ user_cache.previous_message = Prices
    /\ Len(turn.reply) = 2
    /\ turn.reply[2] = Part("gpt", "de", Prices)
    /\ user_cache.chat_history = <<Tom, Prices>>

====
